---- MODULE Spec2Model ----
(***************************************************************************)
(* A model of the mog version control system: the single-file object      *)
(* database (storage.rs), the commit command (commit.rs), the staging      *)
(* index (index.rs) and the flat tree view (status.rs).                    *)
(***************************************************************************)
EXTENDS Integers, Sequences, FiniteSets, TLC

(***************************************************************************)
(* Bounds of the model.                                                    *)
(***************************************************************************)
\* number of buckets of the in-file hash table (2^21 in the program)
HASH_TABLE_BUCKETS == 2
\* records (published or not) the data region may hold
MaxRecords == 3
\* length of the pending queue and of one write_batch
MaxPending == 2

(***************************************************************************)
(* Constants of storage.rs.                                                *)
(***************************************************************************)
HEADER_SIZE == 128
ENTRY_HEADER_SIZE == 36
HASH_SIZE == 32
HASH_TABLE_SIZE == HASH_TABLE_BUCKETS * 8
DATA_START == HEADER_SIZE + HASH_TABLE_SIZE

\* Object hashes. Hash h lives in bucket h % HASH_TABLE_BUCKETS, so the last
\* hash collides with hash 1.
Hashes == {1, 2, HASH_TABLE_BUCKETS + 1}

\* The encoded bytes of the object whose hash is h (hash = blake3(encoding)):
\* one or two bytes, so that records differ in size.
DataOf(h) == [i \in 1 .. (1 + (h % 2)) |-> h]

VARIABLES
    \* ---- objects.bin, as the file system holds it
    buckets,        \* hash table: bucket -> offset of a record, 0 = empty
    count,          \* header object count, bytes [8..16]
    disk,           \* data region: the record slots [off, hash, data, present]
                    \* handed out so far; present = the bytes were written
    disk_len,       \* length of the file
    \* ---- the Storage instance of the running process
    file_len,       \* Storage.file_len, the cached file length
    mmap_len,       \* length of Storage.mmap, fixed when the file is mapped
    pending_writes, \* Storage.pending_writes
    \* ---- observation of the last operation
    last,           \* [op, ok, hashes]
    \* ---- .mog/HEAD and .mog/refs/heads
    HEAD,           \* [symbolic, ref, hash]: "ref: refs/heads/<ref>" or a hash
    refs,           \* branch -> hash of its tip, 0 = no such file
    \* ---- the running command
    pc,             \* position inside the command, "idle" between commands
    commit_hash,    \* the local `hash` of commit(): the new commit
    cmd,            \* [result, at_start]: how the last command ended and
                    \* objects.bin as it was when the command started
    \* ---- the staging index and the trees written from it
    index,          \* an Index
    index2,         \* a second Index, filled with the entries of index in
                    \* another order of add calls
    last_added,     \* path -> the hash last added and not removed since
    index_ret,      \* [op, path, ret]: the last Index call and what it returned
    root,           \* what index.write_tree returned, NoHash before the call
    root2,          \* what index2.write_tree returned
    tree_objects,   \* the objects the repository holds (MockStorage.objects)
    \* ---- the object and index codecs
    codec,          \* [api, x, buf, y]: the value x given to an encoder, the
                    \* bytes buf it wrote, and what the decoder made of them
    \* ---- the working tree and the status command
    worktree,       \* path -> the file on disk [data, meta], NoFile if none
    status,         \* the StatusBuckets collect_status returned last
    \* ---- commits and the checkout command
    commits,        \* the commit objects: commits[c] is the tree of commit c
    co,             \* the last checkout: [result, tree], its result and the
                    \* tree of its target; "none" when an edit came after it
    \* ---- the stage command
    stg,            \* [pc, result, mem, batches, batch, processed, order, infos]
    \* ---- .mog/refs/stash and the stash command
    st,             \* [refs, last, before]: slot -> stash commit, the last
                    \* stash command, and what a save found before it ran
    \* ---- the branch command: HEAD, refs/heads and the commit graph
    br,             \* [HEAD, heads, parents, last]
    \* ---- the discard command
    dc,             \* [patterns, result] of the last discard
    \* ---- the log command
    lg,             \* [objs, HEAD, pc, turn, current, out]
    \* ---- object cache (cache.rs, repository.rs)
    oc,             \* [db, cache: [map, order, total_bytes], evicted, ret]
    \* ---- header of objects.bin at open (storage.rs)
    hd,             \* [file: [len, head], ret]
    \* ---- checkout of one path (checkout.rs checkout_path)
    cp,             \* [wt, index, objects, tree, ret]
    \* ---- trees written from a staged index (stage.rs, index.rs write_tree)
    tw,             \* [wt, index, objects, root]
    \* ---- objects.bin opened by two processes (storage.rs)
    sh              \* [len, disk, buckets, count, procs]

storage_vars == <<buckets, count, disk, disk_len, file_len, mmap_len, pending_writes>>
commit_vars == <<HEAD, refs, pc, commit_hash, cmd>>
index_vars == <<index, index2, last_added, index_ret, root, root2, tree_objects>>
codec_vars == <<codec>>
work_vars == <<worktree, status>>
checkout_vars == <<commits, co>>
stage_vars == <<stg>>
stash_vars == <<st>>
branch_vars == <<br>>
discard_vars == <<dc>>
log_vars == <<lg>>
cache_vars == <<oc>>
header_vars == <<hd>>
checkout_path_vars == <<cp>>
tree_write_vars == <<tw>>
shared_vars == <<sh>>
vars == <<buckets, count, disk, disk_len, file_len, mmap_len, pending_writes, last,
          HEAD, refs, pc, commit_hash, cmd,
          index, index2, last_added, index_ret, root, root2, tree_objects,
          codec, worktree, status, commits, co, stg, st, br, dc, lg, oc, hd, cp, tw, sh>>

\* what a storage operation leaves alone
outside_storage == <<commit_vars, index_vars, codec_vars, work_vars, checkout_vars, stage_vars, stash_vars, branch_vars, discard_vars, log_vars, cache_vars, header_vars, checkout_path_vars, tree_write_vars, shared_vars>>
\* what the commit command leaves alone, besides the refs and the storage
outside_commit == <<last, index_vars, codec_vars, work_vars, checkout_vars, stage_vars, stash_vars, branch_vars, discard_vars, log_vars, cache_vars, header_vars, checkout_path_vars, tree_write_vars, shared_vars>>
\* what an Index call leaves alone
outside_index == <<storage_vars, last, commit_vars, codec_vars, work_vars, checkout_vars, stage_vars, stash_vars, branch_vars, discard_vars, log_vars, cache_vars, header_vars, checkout_path_vars, tree_write_vars, shared_vars>>

\* what a codec call leaves alone
outside_codec == <<storage_vars, last, commit_vars, index_vars, work_vars, checkout_vars, stage_vars, stash_vars, branch_vars, discard_vars, log_vars, cache_vars, header_vars, checkout_path_vars, tree_write_vars, shared_vars>>

\* what the status command and the edits around it leave alone
outside_status ==
    <<storage_vars, last, commit_vars, codec_vars, index2, last_added, index_ret, root2,
      checkout_vars, stage_vars, stash_vars, branch_vars, discard_vars, log_vars, cache_vars, header_vars, checkout_path_vars, tree_write_vars, shared_vars>>

\* what the checkout command leaves alone
outside_checkout ==
    <<storage_vars, last, pc, commit_hash, cmd, codec_vars, index2, last_added, index_ret,
      root, root2, status, stage_vars, stash_vars, branch_vars, discard_vars, log_vars, cache_vars, header_vars, checkout_path_vars, tree_write_vars, shared_vars>>

\* what the stage command and the edits around it leave alone
outside_stage ==
    <<last, commit_vars, codec_vars, index2, last_added, index_ret, root, root2,
      tree_objects, status, checkout_vars, stash_vars, branch_vars, discard_vars, log_vars, cache_vars, header_vars, checkout_path_vars, tree_write_vars, shared_vars>>

\* what the stash command and the edits around it leave alone
outside_stash ==
    <<storage_vars, last, commit_vars, codec_vars, index2, last_added, index_ret, root2,
      status, checkout_vars, stage_vars, branch_vars, discard_vars, log_vars, cache_vars, header_vars, checkout_path_vars, tree_write_vars, shared_vars>>

\* what the branch command and the commands around it leave alone
outside_branch ==
    <<storage_vars, last, commit_vars, index_vars, codec_vars, work_vars, checkout_vars,
      stage_vars, stash_vars, discard_vars, log_vars, cache_vars, header_vars, checkout_path_vars, tree_write_vars, shared_vars>>

\* what the discard command leaves alone
outside_discard ==
    <<storage_vars, last, commit_vars, codec_vars, index2, last_added, index_ret, root,
      root2, tree_objects, status, checkout_vars, stage_vars, stash_vars, branch_vars, log_vars, cache_vars, header_vars, checkout_path_vars, tree_write_vars, shared_vars>>

\* what the log command and the commits around it leave alone
outside_log ==
    <<last, storage_vars, commit_vars, index_vars, codec_vars, work_vars, checkout_vars, stage_vars, stash_vars, branch_vars, discard_vars, cache_vars, header_vars, checkout_path_vars, tree_write_vars, shared_vars>>

\* Everything the object cache operations leave alone.
outside_cache ==
    <<last, storage_vars, commit_vars, index_vars, codec_vars, work_vars, checkout_vars, stage_vars, stash_vars, branch_vars, discard_vars, log_vars, header_vars, checkout_path_vars, tree_write_vars, shared_vars>>

\* Everything the opening of objects.bin leaves alone.
outside_header ==
    <<last, storage_vars, commit_vars, index_vars, codec_vars, work_vars, checkout_vars, stage_vars, stash_vars, branch_vars, discard_vars, log_vars, cache_vars, checkout_path_vars, tree_write_vars, shared_vars>>

\* Everything checkout_path and the edits around it leave alone.
outside_checkout_path ==
    <<last, storage_vars, commit_vars, index_vars, codec_vars, work_vars, checkout_vars, stage_vars, stash_vars, branch_vars, discard_vars, log_vars, cache_vars, header_vars, tree_write_vars, shared_vars>>

\* Everything stage and write_tree of this part leave alone.
outside_tree_write ==
    <<last, storage_vars, commit_vars, index_vars, codec_vars, work_vars, checkout_vars, stage_vars, stash_vars, branch_vars, discard_vars, log_vars, cache_vars, header_vars, checkout_path_vars, shared_vars>>

\* Everything two processes on one objects.bin leave alone.
outside_shared ==
    <<last, storage_vars, commit_vars, index_vars, codec_vars, work_vars, checkout_vars, stage_vars, stash_vars, branch_vars, discard_vars, log_vars, cache_vars, header_vars, checkout_path_vars, tree_write_vars>>

RECURSIVE SumSizes(_)
SumSizes(ws) ==
    IF ws = <<>> THEN 0
    ELSE ENTRY_HEADER_SIZE + Len(Head(ws).data) + SumSizes(Tail(ws))

(***************************************************************************)
(* Reading the file through the mapping.                                   *)
(***************************************************************************)
hash_to_bucket(hash) == hash % HASH_TABLE_BUCKETS

get_bucket_offset(bk, bucket) == bk[bucket]

\* The record that starts at file offset pos; zero bytes where nothing was
\* written.
RecordAt(dk, pos) ==
    IF \E i \in 1 .. Len(dk) : dk[i].off = pos /\ dk[i].present
    THEN LET i == CHOOSE i \in 1 .. Len(dk) : dk[i].off = pos /\ dk[i].present
         IN  [hash |-> dk[i].hash, data |-> dk[i].data]
    ELSE [hash |-> 0, data |-> <<>>]

RECURSIVE exists_probe(_, _, _, _, _)
exists_probe(bk, dk, ml, hash, current_bucket) ==
    LET offset == get_bucket_offset(bk, current_bucket)
        next   == (current_bucket + 1) % HASH_TABLE_BUCKETS
    IN  IF offset = 0 THEN FALSE
        ELSE IF offset + HASH_SIZE > ml THEN FALSE
        ELSE IF RecordAt(dk, offset).hash = hash THEN TRUE
        ELSE IF next = hash_to_bucket(hash) THEN FALSE
        ELSE exists_probe(bk, dk, ml, hash, next)

exists_in(bk, dk, ml, hash) == exists_probe(bk, dk, ml, hash, hash_to_bucket(hash))

\* Storage::read: the bytes, "not_found", or "panic" for a slice of the
\* mapping that is out of range.
RECURSIVE read_probe(_, _, _, _, _)
read_probe(bk, dk, ml, hash, current_bucket) ==
    LET offset == get_bucket_offset(bk, current_bucket)
        next   == (current_bucket + 1) % HASH_TABLE_BUCKETS
        rec    == RecordAt(dk, offset)
    IN  IF offset = 0 THEN [res |-> "not_found", data |-> <<>>]
        ELSE IF offset + HASH_SIZE > ml THEN [res |-> "panic", data |-> <<>>]
        ELSE IF rec.hash = hash
             THEN IF offset + ENTRY_HEADER_SIZE + Len(rec.data) > ml
                  THEN [res |-> "panic", data |-> <<>>]
                  ELSE [res |-> "ok", data |-> rec.data]
        ELSE IF next = hash_to_bucket(hash) THEN [res |-> "not_found", data |-> <<>>]
        ELSE read_probe(bk, dk, ml, hash, next)

read_in(bk, dk, ml, hash) == read_probe(bk, dk, ml, hash, hash_to_bucket(hash))

exists(hash) == exists_in(buckets, disk, mmap_len, hash)
read(hash) == read_in(buckets, disk, mmap_len, hash)

(***************************************************************************)
(* Publishing records: the bucket loop of flush and write_batch.           *)
(***************************************************************************)
\* (a probe that starts one bucket after the home bucket)
RECURSIVE probe_empty_skip_home(_, _, _)
probe_empty_skip_home(bk, hash, current_bucket) ==
    LET start == (current_bucket + 1) % HASH_TABLE_BUCKETS
        next  == (start + 1) % HASH_TABLE_BUCKETS
    IN  IF get_bucket_offset(bk, start) = 0 THEN start
        ELSE IF get_bucket_offset(bk, next) = 0 THEN next
        ELSE -1

\* (a probe that takes the home bucket whether or not it is empty)
probe_empty_no_probe(bk, hash, current_bucket) == current_bucket

\* The first empty bucket on the probe path of hash, or -1 after a full scan.
RECURSIVE probe_empty(_, _, _)
probe_empty(bk, hash, current_bucket) ==
    LET next == (current_bucket + 1) % HASH_TABLE_BUCKETS
    IN  IF get_bucket_offset(bk, current_bucket) = 0 THEN current_bucket
        ELSE IF next = hash_to_bucket(hash) THEN -1
        ELSE probe_empty(bk, hash, next)

set_bucket_offset(bk, bucket, value) == [bk EXCEPT ![bucket] = value]

\* Inserts the records of writes, laid out from offset off, one after the
\* other; stops at the first record that finds the table full.
RECURSIVE insert_buckets(_, _, _)
insert_buckets(bk, writes, off) ==
    IF writes = <<>> THEN [buckets |-> bk, full |-> FALSE]
    ELSE LET w == Head(writes)
             b == probe_empty(bk, w.hash, hash_to_bucket(w.hash))
         IN  IF b = -1 THEN [buckets |-> bk, full |-> TRUE]
             ELSE insert_buckets(set_bucket_offset(bk, b, off), Tail(writes),
                                 off + ENTRY_HEADER_SIZE + Len(w.data))

\* The records of writes as they are laid out in the buffer written at off.
RECURSIVE layout(_, _, _)
layout(writes, off, present) ==
    IF writes = <<>> THEN <<>>
    ELSE <<[off |-> off, hash |-> Head(writes).hash, data |-> Head(writes).data,
            present |-> present]>>
         \o layout(Tail(writes), off + ENTRY_HEADER_SIZE + Len(Head(writes).data), present)

\* The common body of flush and write_batch: extend the file, one positional
\* write, the bucket loop, the header count. s is the storage state, fail the
\* step at which the operating system reports an error ("none" for no error).
append_records(s, writes, fail) ==
    LET total_size   == SumSizes(writes)
        current_size == s.file_len
        new_len      == current_size + total_size
        s1 == [s EXCEPT !.file_len = new_len,
                        !.disk = s.disk \o layout(writes, current_size, FALSE)]
        s2 == [s1 EXCEPT !.disk_len = new_len]
        s3 == [s1 EXCEPT !.disk_len = new_len,
                         !.disk = s.disk \o layout(writes, current_size, TRUE)]
        ins == insert_buckets(s3.buckets, writes, current_size)
    IN  IF fail = "set_len" THEN [s1 EXCEPT !.ok = FALSE]
        ELSE IF fail = "write_at" THEN [s2 EXCEPT !.ok = FALSE]
        ELSE IF ins.full THEN [s3 EXCEPT !.buckets = ins.buckets, !.ok = FALSE]
        ELSE [s3 EXCEPT !.buckets = ins.buckets,
                        !.count = s.count + Len(writes),
                        !.ok = TRUE]

St == [buckets |-> buckets, count |-> count, disk |-> disk, disk_len |-> disk_len,
       file_len |-> file_len, mmap_len |-> mmap_len,
       pending_writes |-> pending_writes, ok |-> TRUE]

\* Storage::flush
flush_of(s, fail) ==
    IF s.pending_writes = <<>> THEN [s EXCEPT !.ok = TRUE]
    ELSE append_records([s EXCEPT !.pending_writes = <<>>], s.pending_writes, fail)

\* Storage::write
write_of(s, hash, data) ==
    IF exists_in(s.buckets, s.disk, s.mmap_len, hash) THEN s
    ELSE [s EXCEPT !.pending_writes = Append(@, [hash |-> hash, data |-> data])]

\* (nothing is appended and Ok is returned)
write_batch_of_nothing(s, entries, fail) == [s EXCEPT !.ok = TRUE]

\* Storage::write_batch
write_batch_of(s, entries, fail) ==
    LET to_write == SelectSeq(entries,
                        LAMBDA e : ~exists_in(s.buckets, s.disk, s.mmap_len, e.hash))
    IN  IF to_write = <<>> THEN [s EXCEPT !.ok = TRUE]
        ELSE append_records(s, to_write, fail)

\* Storage::open_existing on the file as it is on disk
open_existing_of(s) ==
    [s EXCEPT !.file_len = s.disk_len, !.mmap_len = s.disk_len,
              !.pending_writes = <<>>, !.ok = TRUE]

SetStorage(s) ==
    /\ buckets' = s.buckets
    /\ count' = s.count
    /\ disk' = s.disk
    /\ disk_len' = s.disk_len
    /\ file_len' = s.file_len
    /\ mmap_len' = s.mmap_len
    /\ pending_writes' = s.pending_writes

Failures == {"none", "set_len", "write_at"}

(***************************************************************************)
(* The staging index (index.rs). Arrays are 0-based as in the program:     *)
(* At(a, i) is a[i].                                                       *)
(***************************************************************************)
At(a, i) == a[i + 1]

SLASH == 47
MODE_FILE == 33188
MODE_EXEC == 33261
MODE_DIR == 16384

\* Paths as byte strings: "a-", "a/b", "a/c/a", "b".
PathUniverse ==
    { <<97, 45>>, <<97, 47, 98>>, <<97, 47, 99, 47, 97>>, <<98>> }

\* Hashes of objects are modelled by the encoded object itself, so that two
\* objects have the same hash exactly when their encodings are equal.
BlobHash(n) == [tag |-> "blob", id |-> n, entries |-> <<>>]
TreeHash(entries) == [tag |-> "tree", id |-> 0, entries |-> entries]
BlobHashes == {BlobHash(1), BlobHash(2)}

\* fs::Metadata of the file that is added: executable bit, mtime, size
Metas == { [exec |-> FALSE, mtime |-> 1, size |-> 1],
           [exec |-> TRUE,  mtime |-> 2, size |-> 2] }

EmptyIndex ==
    [count |-> 0, modes |-> <<>>, hashes |-> <<>>, mtimes |-> <<>>, sizes |-> <<>>,
     path_offsets |-> <<>>, paths_blob |-> <<>>,
     path_index |-> [h \in {0, 1} |-> <<>>]]

RECURSIVE SumBytes(_)
SumBytes(str) == IF str = <<>> THEN 0 ELSE Head(str) + SumBytes(Tail(str))

\* xxh3_64 of the path, folded to two values so that paths collide
path_hash(path) == SumBytes(path) % 2

get_path_impl(cnt, path_offsets, paths_blob, i) ==
    LET start == At(path_offsets, i)
        end   == IF i + 1 < cnt THEN At(path_offsets, i + 1) ELSE Len(paths_blob)
    IN  SubSeq(paths_blob, start + 1, end)

get_path(idx, i) == get_path_impl(idx.count, idx.path_offsets, idx.paths_blob, i)

\* position (0-based) in list of the first entry index whose path is path, -1
\* when there is none
list_position(idx, list, path) ==
    IF \E k \in 1 .. Len(list) : get_path(idx, list[k]) = path
    THEN (CHOOSE k \in 1 .. Len(list) :
            /\ get_path(idx, list[k]) = path
            /\ \A j \in 1 .. (k - 1) : get_path(idx, list[j]) # path) - 1
    ELSE -1

\* Index::find: the entry index, -1 for None
find(idx, path) ==
    LET list == idx.path_index[path_hash(path)]
        pos  == list_position(idx, list, path)
    IN  IF pos = -1 THEN -1 ELSE At(list, pos)

\* Index::add
add(idx, path, hash, meta) ==
    LET mode == IF meta.exec THEN MODE_EXEC ELSE MODE_FILE
        h    == path_hash(path)
        i    == find(idx, path)
    IN  IF i # -1
        THEN [idx EXCEPT !.modes[i + 1]  = mode,
                         !.hashes[i + 1] = hash,
                         !.mtimes[i + 1] = meta.mtime,
                         !.sizes[i + 1]  = meta.size]
        ELSE [idx EXCEPT !.modes  = Append(@, mode),
                         !.hashes = Append(@, hash),
                         !.mtimes = Append(@, meta.mtime),
                         !.sizes  = Append(@, meta.size),
                         !.path_offsets = Append(@, Len(idx.paths_blob)),
                         !.paths_blob = @ \o path,
                         !.path_index[h] = Append(@, idx.count),
                         !.count = @ + 1]

\* Vec::remove(i)
RemoveAt(a, i) == SubSeq(a, 1, i) \o SubSeq(a, i + 2, Len(a))

\* remove(): paths_blob and path_offsets rebuilt from the paths that stay
RECURSIVE rebuild_paths(_, _, _, _)
rebuild_paths(idx, i, j, acc) ==
    IF j >= idx.count THEN acc
    ELSE IF j = i THEN rebuild_paths(idx, i, j + 1, acc)
    ELSE rebuild_paths(idx, i, j + 1,
            [path_offsets |-> Append(acc.path_offsets, Len(acc.paths_blob)),
             paths_blob   |-> acc.paths_blob \o get_path(idx, j)])

\* (a fix-up that moves every entry index down, also those below the removed)
shift_down_all(list, i) ==
    [k \in 1 .. Len(list) |-> IF list[k] > 0 THEN list[k] - 1 ELSE list[k]]

\* remove(): entry indices above the removed one move down by one
shift_down(list, i) ==
    [k \in 1 .. Len(list) |-> IF list[k] > i THEN list[k] - 1 ELSE list[k]]

\* Index::remove: [index, ret]
remove(idx, path) ==
    LET h    == path_hash(path)
        list == idx.path_index[h]
        pos  == list_position(idx, list, path)
        i    == At(list, pos)
        rb   == rebuild_paths(idx, i, 0, [path_offsets |-> <<>>, paths_blob |-> <<>>])
        pi   == [idx.path_index EXCEPT ![h] = RemoveAt(list, pos)]
    IN  IF pos = -1 THEN [index |-> idx, ret |-> FALSE]
        ELSE [index |->
                [count  |-> idx.count - 1,
                 modes  |-> RemoveAt(idx.modes, i),
                 hashes |-> RemoveAt(idx.hashes, i),
                 mtimes |-> RemoveAt(idx.mtimes, i),
                 sizes  |-> RemoveAt(idx.sizes, i),
                 path_offsets |-> rb.path_offsets,
                 paths_blob   |-> rb.paths_blob,
                 path_index   |-> [k \in DOMAIN pi |-> shift_down(pi[k], i)]],
              ret |-> TRUE]

(***************************************************************************)
(* Index::write_tree and build_tree (index.rs).                            *)
(***************************************************************************)
NoHash == [tag |-> "none", id |-> 0, entries |-> <<>>]

\* byte-wise order of strings
RECURSIVE BytesLess(_, _)
BytesLess(p, q) ==
    IF q = <<>> THEN FALSE
    ELSE IF p = <<>> THEN TRUE
    ELSE IF Head(p) < Head(q) THEN TRUE
    ELSE IF Head(p) > Head(q) THEN FALSE
    ELSE BytesLess(Tail(p), Tail(q))

\* the number of strings that a sort puts before strs[i]
Rank(strs, i) ==
    Cardinality({j \in 1 .. Len(strs) :
        BytesLess(strs[j], strs[i]) \/ (strs[j] = strs[i] /\ j < i)})

\* (no sort: the entries stay in the order of the arrays)
sort_by_path_unsorted(strs) == [k \in 1 .. Len(strs) |-> k - 1]

\* the order vector: the 0-based positions of strs in ascending byte order
sort_by_path(strs) ==
    [k \in 1 .. Len(strs) |-> (CHOOSE i \in 1 .. Len(strs) : Rank(strs, i) = k - 1) - 1]

RECURSIVE trim_start_slashes(_)
trim_start_slashes(str) ==
    IF str # <<>> /\ Head(str) = SLASH THEN trim_start_slashes(Tail(str)) ELSE str

starts_with(str, prefix) ==
    Len(str) >= Len(prefix) /\ SubSeq(str, 1, Len(prefix)) = prefix

\* str.find('/'): 0-based position of the first '/', -1 for None
find_slash(str) ==
    IF \E k \in 1 .. Len(str) : str[k] = SLASH
    THEN (CHOOSE k \in 1 .. Len(str) :
            str[k] = SLASH /\ \A j \in 1 .. (k - 1) : str[j] # SLASH) - 1
    ELSE -1

\* the loop of build_tree; objs are the objects of the repository
RECURSIVE build_tree_loop(_, _, _, _, _, _)
build_tree_loop(paths, modes, hashes, stack, i, objs) ==
    LET f           == stack[Len(stack)]
        cur_dir     == f.dir
        cur_dir_len == Len(cur_dir)
        path_norm   == trim_start_slashes(At(paths, i))
        finish_now  ==
            IF i >= Len(paths) THEN TRUE
            ELSE IF cur_dir = <<>> THEN FALSE
            ELSE ~(/\ starts_with(path_norm, cur_dir)
                   /\ Len(path_norm) > cur_dir_len
                   /\ At(path_norm, cur_dir_len) = SLASH)
    IN  IF finish_now
        THEN LET tree_hash == TreeHash(f.tree_entries_buffer)
                 written   == objs \cup {tree_hash}
                 rest      == SubSeq(stack, 1, Len(stack) - 1)
             IN  IF rest # <<>>
                 THEN build_tree_loop(paths, modes, hashes,
                        [rest EXCEPT ![Len(rest)].tree_entries_buffer =
                            Append(@, [mode |-> MODE_DIR, hash |-> tree_hash,
                                       name |-> f.name_in_parent])],
                        i, written)
                 ELSE [hash |-> tree_hash, consumed |-> i - f.start, objects |-> written]
        ELSE LET rel   == IF cur_dir = <<>> THEN path_norm
                          ELSE SubSeq(path_norm, cur_dir_len + 2, Len(path_norm))
                 slash == find_slash(rel)
             IN  IF rel = <<>>
                 THEN build_tree_loop(paths, modes, hashes, stack, i + 1, objs)
                 ELSE IF slash = -1
                 THEN build_tree_loop(paths, modes, hashes,
                        [stack EXCEPT ![Len(stack)].tree_entries_buffer =
                            Append(@, [mode |-> At(modes, i), hash |-> At(hashes, i),
                                       name |-> rel])],
                        i + 1, objs)
                 ELSE IF slash = 0
                 THEN build_tree_loop(paths, modes, hashes, stack, i + 1, objs)
                 ELSE build_tree_loop(paths, modes, hashes,
                        Append(stack,
                            [dir |-> IF cur_dir = <<>> THEN SubSeq(path_norm, 1, slash)
                                     ELSE SubSeq(path_norm, 1, cur_dir_len + 1 + slash),
                             start |-> i,
                             name_in_parent |-> SubSeq(rel, 1, slash),
                             tree_entries_buffer |-> <<>>]),
                        i, objs)

build_tree(objs, paths, modes, hashes, dir, start) ==
    build_tree_loop(paths, modes, hashes,
        <<[dir |-> dir, start |-> start, name_in_parent |-> <<>>,
           tree_entries_buffer |-> <<>>]>>,
        start, objs)

\* Index::write_tree on a repository that holds objs: [hash, consumed, objects]
write_tree(idx, objs) ==
    LET all_paths     == [k \in 1 .. idx.count |-> get_path(idx, k - 1)]
        order         == sort_by_path(all_paths)
        sorted_paths  == [k \in 1 .. idx.count |-> At(all_paths, order[k])]
        sorted_modes  == [k \in 1 .. idx.count |-> At(idx.modes, order[k])]
        sorted_hashes == [k \in 1 .. idx.count |-> At(idx.hashes, order[k])]
    IN  build_tree(objs, sorted_paths, sorted_modes, sorted_hashes, <<>>, 0)

(***************************************************************************)
(* The flat tree view (status.rs).                                         *)
(***************************************************************************)
\* flatten_tree: the entries of one frame, from entry j on
RECURSIVE flatten_entries(_, _, _, _, _)
flatten_entries(objs, frame, j, stack, out) ==
    IF j > Len(frame.tree.entries) THEN [stack |-> stack, out |-> out]
    ELSE LET e    == frame.tree.entries[j]
             path == IF frame.prefix = <<>> THEN e.name
                     ELSE frame.prefix \o <<SLASH>> \o e.name
         IN  IF e.mode = MODE_DIR
             THEN IF e.hash \in objs /\ e.hash.tag = "tree"
                  THEN flatten_entries(objs, frame, j + 1,
                          Append(stack, [tree |-> e.hash, prefix |-> path]), out)
                  ELSE [stack |-> <<>>, out |-> [out EXCEPT !.err = TRUE]]
             ELSE flatten_entries(objs, frame, j + 1, stack,
                      [out EXCEPT !.paths = Append(@, path),
                                  !.hashes = Append(@, e.hash)])

RECURSIVE flatten_loop(_, _, _)
flatten_loop(objs, stack, out) ==
    IF stack = <<>> \/ out.err THEN out
    ELSE LET frame == stack[Len(stack)]
             r     == flatten_entries(objs, frame, 1, SubSeq(stack, 1, Len(stack) - 1), out)
         IN  flatten_loop(objs, r.stack, r.out)

\* flatten_tree of the root tree_hash: [paths, hashes, sorted_order, err]
flatten_tree(objs, tree_hash) ==
    IF ~(tree_hash \in objs /\ tree_hash.tag = "tree")
    THEN [paths |-> <<>>, hashes |-> <<>>, sorted_order |-> <<>>, err |-> TRUE]
    ELSE LET out == flatten_loop(objs, <<[tree |-> tree_hash, prefix |-> <<>>]>>,
                        [paths |-> <<>>, hashes |-> <<>>, err |-> FALSE])
         IN  [paths |-> out.paths, hashes |-> out.hashes,
              sorted_order |-> sort_by_path(out.paths), err |-> out.err]

\* (a search that never continues in the upper half)
RECURSIVE lookup_search_lower_only(_, _, _, _)
lookup_search_lower_only(flat, path, lo, hi) ==
    IF lo >= hi THEN NoHash
    ELSE LET mid == lo + ((hi - lo) \div 2)
             i   == At(flat.sorted_order, mid)
             q   == At(flat.paths, i)
         IN  IF BytesLess(path, q) THEN lookup_search_lower_only(flat, path, lo, mid)
             ELSE IF path = q THEN At(flat.hashes, i)
             ELSE NoHash

\* SortedFlatTree::lookup: binary search, NoHash for None
RECURSIVE lookup_search(_, _, _, _)
lookup_search(flat, path, lo, hi) ==
    IF lo >= hi THEN NoHash
    ELSE LET mid == lo + ((hi - lo) \div 2)
             i   == At(flat.sorted_order, mid)
             q   == At(flat.paths, i)
         IN  IF BytesLess(path, q) THEN lookup_search(flat, path, lo, mid)
             ELSE IF path = q THEN At(flat.hashes, i)
             ELSE lookup_search(flat, path, mid + 1, hi)

lookup(flat, path) == lookup_search(flat, path, 0, Len(flat.sorted_order))

InitIndex ==
    /\ index = EmptyIndex
    /\ index2 = EmptyIndex
    /\ last_added = [q \in PathUniverse |-> NoHash]
    /\ index_ret = [op |-> "none", ret |-> FALSE]
    /\ root = NoHash
    /\ root2 = NoHash
    /\ tree_objects = {}

(***************************************************************************)
(* Byte layout (wire.rs): little-endian integers, 32-byte hashes.          *)
(***************************************************************************)
\* n.to_le_bytes() truncated to w bytes
RECURSIVE to_le_bytes(_, _)
to_le_bytes(n, w) ==
    IF w = 0 THEN <<>> ELSE <<n % 256>> \o to_le_bytes(n \div 256, w - 1)

\* larger than the length of every buffer of the model
HugeLen == 1073741824

\* u32::from_le_bytes; values from 2^30 on are all read as HugeLen
u32_from_le_bytes(b) ==
    IF b[4] >= 64 THEN HugeLen
    ELSE b[1] + 256 * b[2] + 65536 * b[3] + 16777216 * b[4]

\* u64::from_le_bytes and i64::from_le_bytes, likewise
u64_from_le_bytes(b) ==
    IF \E k \in 5 .. 8 : b[k] # 0 THEN HugeLen ELSE u32_from_le_bytes(SubSeq(b, 1, 4))

\* data[a..b]
Slice(data, a, b) == SubSeq(data, a + 1, b)

\* the 32 bytes of a hash of the model
HashBytes(h) == [k \in 1 .. HASH_SIZE |-> h.id]
BlobHashOfBytes(b) == BlobHash(b[1])

RECURSIVE Concat(_)
Concat(seqs) == IF seqs = <<>> THEN <<>> ELSE Head(seqs) \o Concat(Tail(seqs))

\* the result of a decoder: Ok(value), Err, or a panic (slice out of range)
Ok(v) == [res |-> "ok", value |-> v]
Err == [res |-> "err", value |-> <<>>]
Panic == [res |-> "panic", value |-> <<>>]

\* b"VX01"
OBJECT_MAGIC == <<86, 88, 48, 49>>
OBJECT_BLOB == 1
OBJECT_TREE == 2
OBJECT_COMMIT == 4

(***************************************************************************)
(* Object::encode and Object::decode (object.rs).  A Blob is [data], a     *)
(* Tree is [modes, hashes, name_offsets, names_blob], a Commit is          *)
(* [tree, parents, timestamp, author, message]; hashes are 32-byte strings.*)
(***************************************************************************)
Tree_encode_into(tree) ==
    to_le_bytes(Len(tree.modes), 4)
        \o Concat([k \in 1 .. Len(tree.modes) |-> to_le_bytes(tree.modes[k], 4)])
        \o Concat(tree.hashes)
        \o Concat([k \in 1 .. Len(tree.name_offsets) |-> to_le_bytes(tree.name_offsets[k], 4)])
        \o to_le_bytes(Len(tree.names_blob), 4)
        \o tree.names_blob

Commit_encode_into(commit) ==
    commit.tree
        \o to_le_bytes(Len(commit.parents), 4)
        \o Concat(commit.parents)
        \o to_le_bytes(commit.timestamp, 8)
        \o to_le_bytes(Len(commit.author), 4) \o commit.author
        \o to_le_bytes(Len(commit.message), 4) \o commit.message

Object_encode(obj) ==
    OBJECT_MAGIC \o
        (CASE obj.kind = "blob"   -> <<OBJECT_BLOB>> \o to_le_bytes(Len(obj.data), 8) \o obj.data
           [] obj.kind = "tree"   -> <<OBJECT_TREE>> \o Tree_encode_into(obj)
           [] obj.kind = "commit" -> <<OBJECT_COMMIT>> \o Commit_encode_into(obj))

Blob_decode(data) ==
    IF Len(data) < 8 THEN Panic
    ELSE LET len == u64_from_le_bytes(Slice(data, 0, 8))
         IN  IF 8 + len > Len(data) THEN Panic
             ELSE Ok([kind |-> "blob", data |-> Slice(data, 8, 8 + len)])

Tree_decode(data) ==
    IF Len(data) < 4 THEN Panic
    ELSE LET cnt == u32_from_le_bytes(Slice(data, 0, 4))
             m0  == 4
             h0  == m0 + 4 * cnt
             o0  == h0 + 32 * cnt
             n0  == o0 + 4 * cnt
         IN  IF cnt >= 16777216 \/ n0 + 4 > Len(data) THEN Panic
             ELSE LET names_len == u32_from_le_bytes(Slice(data, n0, n0 + 4))
                  IN  IF n0 + 4 + names_len > Len(data) THEN Panic
                      ELSE Ok([kind   |-> "tree",
                               modes  |-> [k \in 1 .. cnt |->
                                   u32_from_le_bytes(Slice(data, m0 + 4 * (k - 1), m0 + 4 * k))],
                               hashes |-> [k \in 1 .. cnt |->
                                   Slice(data, h0 + 32 * (k - 1), h0 + 32 * k)],
                               name_offsets |-> [k \in 1 .. cnt |->
                                   u32_from_le_bytes(Slice(data, o0 + 4 * (k - 1), o0 + 4 * k))],
                               names_blob |-> Slice(data, n0 + 4, n0 + 4 + names_len)])

Commit_decode(data) ==
    IF Len(data) < 36 THEN Panic
    ELSE LET parent_count == u32_from_le_bytes(Slice(data, 32, 36))
             t0 == 36 + 32 * parent_count
         IN  IF parent_count >= 16777216 \/ t0 + 12 > Len(data) THEN Panic
             ELSE LET author_len == u32_from_le_bytes(Slice(data, t0 + 8, t0 + 12))
                      m0 == t0 + 12 + author_len
                  IN  IF m0 + 4 > Len(data) THEN Panic
                      ELSE LET msg_len == u32_from_le_bytes(Slice(data, m0, m0 + 4))
                           IN  IF m0 + 4 + msg_len > Len(data) THEN Panic
                               ELSE Ok([kind    |-> "commit",
                                        tree    |-> Slice(data, 0, 32),
                                        parents |-> [k \in 1 .. parent_count |->
                                            Slice(data, 36 + 32 * (k - 1), 36 + 32 * k)],
                                        timestamp |-> u64_from_le_bytes(Slice(data, t0, t0 + 8)),
                                        author  |-> Slice(data, t0 + 12, m0),
                                        message |-> Slice(data, m0 + 4, m0 + 4 + msg_len)])

Object_decode(data) ==
    IF Len(data) < 5 THEN Err
    ELSE IF Slice(data, 0, 4) # OBJECT_MAGIC THEN Err
    ELSE CASE data[5] = 0 -> Blob_decode(Slice(data, 5, Len(data)))
           [] data[5] = 1 -> Tree_decode(Slice(data, 5, Len(data)))
           [] data[5] = 2 -> Commit_decode(Slice(data, 5, Len(data)))
           [] OTHER       -> Err

(***************************************************************************)
(* encode_object_into and decode_into_stores (store.rs) with the payload   *)
(* codecs of tree.rs and commit.rs.  A tree of the stores is [entries], an  *)
(* entry [mode, hash, name].                                               *)
(***************************************************************************)
\* ObjectTag::as_byte and ObjectTag::from_byte
ObjectTag_as_byte(kind) ==
    CASE kind = "blob" -> OBJECT_BLOB [] kind = "tree" -> OBJECT_TREE [] kind = "commit" -> OBJECT_COMMIT

ObjectTag_from_byte(tag) ==
    CASE tag = OBJECT_BLOB -> "blob" [] tag = OBJECT_TREE -> "tree"
      [] tag = OBJECT_COMMIT -> "commit" [] OTHER -> "none"

\* offset of the name of entry k (1-based) in the names blob
RECURSIVE name_start(_, _)
name_start(entries, k) ==
    IF k = 1 THEN 0 ELSE name_start(entries, k - 1) + Len(entries[k - 1].name)

TreePayloadView_encode(entries) ==
    LET n == Len(entries)
    IN  to_le_bytes(n, 4)
            \o Concat([k \in 1 .. n |-> to_le_bytes(entries[k].mode, 4)])
            \o Concat([k \in 1 .. n |-> entries[k].hash])
            \o Concat([k \in 1 .. n |-> to_le_bytes(name_start(entries, k), 4)])
            \o to_le_bytes(name_start(entries, n + 1), 4)
            \o Concat([k \in 1 .. n |-> entries[k].name])

TreePayloadOwned_decode(data) ==
    IF Len(data) < 4 THEN Err
    ELSE LET cnt == u32_from_le_bytes(Slice(data, 0, 4))
             m0  == 4
             h0  == m0 + 4 * cnt
             o0  == h0 + 32 * cnt
             n0  == o0 + 4 * cnt
         IN  IF cnt >= 16777216 \/ n0 + 4 > Len(data) THEN Err
             ELSE LET names_len == u32_from_le_bytes(Slice(data, n0, n0 + 4))
                      off(k)    == IF k > cnt THEN names_len
                                   ELSE u32_from_le_bytes(Slice(data, o0 + 4 * (k - 1), o0 + 4 * k))
                  IN  IF n0 + 4 + names_len > Len(data) THEN Err
                      ELSE IF \E k \in 1 .. cnt : off(k) > off(k + 1) \/ off(k + 1) > names_len
                      THEN Panic
                      ELSE Ok([kind    |-> "tree",
                               entries |-> [k \in 1 .. cnt |->
                                   [mode |-> u32_from_le_bytes(Slice(data, m0 + 4 * (k - 1), m0 + 4 * k)),
                                    hash |-> Slice(data, h0 + 32 * (k - 1), h0 + 32 * k),
                                    name |-> Slice(data, n0 + 4 + off(k), n0 + 4 + off(k + 1))]]])

CommitPayloadView_encode(commit) == Commit_encode_into(commit)

CommitPayloadOwned_decode(data) ==
    LET r == Commit_decode(data) IN IF r.res = "panic" THEN Err ELSE r

encode_object_into(obj) ==
    OBJECT_MAGIC \o <<ObjectTag_as_byte(obj.kind)>> \o
        (CASE obj.kind = "blob"   -> to_le_bytes(Len(obj.data), 8) \o obj.data
           [] obj.kind = "tree"   -> TreePayloadView_encode(obj.entries)
           [] obj.kind = "commit" -> CommitPayloadView_encode(obj))

decode_into_stores(data) ==
    IF Len(data) < 5 THEN Err
    ELSE IF Slice(data, 0, 4) # OBJECT_MAGIC THEN Err
    ELSE LET r   == Slice(data, 5, Len(data))
             tag == ObjectTag_from_byte(data[5])
         IN  CASE tag = "blob" ->
                    IF Len(r) < 8 THEN Err
                    ELSE LET len == u64_from_le_bytes(Slice(r, 0, 8))
                         IN  IF 8 + len > Len(r) THEN Err
                             ELSE Ok([kind |-> "blob", data |-> Slice(r, 8, 8 + len)])
               [] tag = "tree"   -> TreePayloadOwned_decode(r)
               [] tag = "commit" -> CommitPayloadOwned_decode(r)
               [] OTHER          -> Err

(***************************************************************************)
(* Index::encode and Index::decode (index.rs).                             *)
(***************************************************************************)
\* b"MOGG"
INDEX_MAGIC == <<77, 79, 71, 71>>
INDEX_VERSION == 1
MINIMAL_HEADER_SIZE_IN_BYTES == 12

Index_encode(idx) ==
    INDEX_MAGIC
        \o to_le_bytes(INDEX_VERSION, 4)
        \o to_le_bytes(idx.count, 4)
        \o Concat([k \in 1 .. Len(idx.modes) |-> to_le_bytes(idx.modes[k], 4)])
        \o Concat([k \in 1 .. Len(idx.hashes) |-> HashBytes(idx.hashes[k])])
        \o Concat([k \in 1 .. Len(idx.mtimes) |-> to_le_bytes(idx.mtimes[k], 8)])
        \o Concat([k \in 1 .. Len(idx.sizes) |-> to_le_bytes(idx.sizes[k], 8)])
        \o Concat([k \in 1 .. Len(idx.path_offsets) |-> to_le_bytes(idx.path_offsets[k], 4)])
        \o to_le_bytes(Len(idx.paths_blob), 4)
        \o idx.paths_blob

\* the path-hash lists of an index whose arrays are set
RECURSIVE build_path_index(_, _, _)
build_path_index(idx, i, acc) ==
    IF i >= idx.count THEN acc
    ELSE build_path_index(idx, i + 1,
            [acc EXCEPT ![path_hash(get_path(idx, i))] = Append(@, i)])

Index_decode(data) ==
    IF Len(data) < MINIMAL_HEADER_SIZE_IN_BYTES THEN Err
    ELSE IF Slice(data, 0, 4) # INDEX_MAGIC THEN Err
    ELSE IF u32_from_le_bytes(Slice(data, 4, 8)) # INDEX_VERSION THEN Err
    ELSE LET cnt == u32_from_le_bytes(Slice(data, 8, MINIMAL_HEADER_SIZE_IN_BYTES))
             m0  == MINIMAL_HEADER_SIZE_IN_BYTES
             h0  == m0 + 4 * cnt
             t0  == h0 + 32 * cnt
             s0  == t0 + 8 * cnt
             o0  == s0 + 8 * cnt
             b0  == o0 + 4 * cnt
         IN  IF cnt >= 16777216 \/ b0 + 4 > Len(data) THEN Panic
             ELSE LET blob_len == u32_from_le_bytes(Slice(data, b0, b0 + 4))
                      arrays   ==
                        [count  |-> cnt,
                         modes  |-> [k \in 1 .. cnt |->
                             u32_from_le_bytes(Slice(data, m0 + 4 * (k - 1), m0 + 4 * k))],
                         hashes |-> [k \in 1 .. cnt |->
                             BlobHashOfBytes(Slice(data, h0 + 32 * (k - 1), h0 + 32 * k))],
                         mtimes |-> [k \in 1 .. cnt |->
                             u64_from_le_bytes(Slice(data, t0 + 8 * (k - 1), t0 + 8 * k))],
                         sizes  |-> [k \in 1 .. cnt |->
                             u64_from_le_bytes(Slice(data, s0 + 8 * (k - 1), s0 + 8 * k))],
                         path_offsets |-> [k \in 1 .. cnt |->
                             u32_from_le_bytes(Slice(data, o0 + 4 * (k - 1), o0 + 4 * k))],
                         paths_blob |-> Slice(data, b0 + 4, b0 + 4 + blob_len),
                         path_index |-> EmptyIndex.path_index]
                  IN  IF b0 + 4 + blob_len > Len(data) THEN Panic
                      ELSE Ok([arrays EXCEPT !.path_index =
                                  build_path_index(arrays, 0, EmptyIndex.path_index)])

(***************************************************************************)
(* Values given to the codecs.                                             *)
(***************************************************************************)
ByteStrings == { <<>>, <<0>>, <<1>>, <<97, 98>> }

HashInputs == {HashBytes(h) : h \in BlobHashes}

TreeEntryInputs ==
    { [mode |-> MODE_FILE, hash |-> HashBytes(BlobHash(1)), name |-> <<97>>],
      [mode |-> MODE_DIR,  hash |-> HashBytes(BlobHash(2)), name |-> <<98, 99>>] }

EntryLists ==
    {<<>>} \cup {<<e>> : e \in TreeEntryInputs}
           \cup {<<e, f>> : e \in TreeEntryInputs, f \in TreeEntryInputs}

\* Tree of object.rs holding entries
TreeOf(entries) ==
    [kind   |-> "tree",
     modes  |-> [k \in 1 .. Len(entries) |-> entries[k].mode],
     hashes |-> [k \in 1 .. Len(entries) |-> entries[k].hash],
     name_offsets |-> [k \in 1 .. Len(entries) |-> name_start(entries, k)],
     names_blob   |-> Concat([k \in 1 .. Len(entries) |-> entries[k].name])]

BlobInputs == {[kind |-> "blob", data |-> d] : d \in ByteStrings}

CommitInputs ==
    {[kind |-> "commit", tree |-> t, parents |-> ps, timestamp |-> ts,
      author |-> a, message |-> m] :
        t \in {HashBytes(BlobHash(1))},
        ps \in {<<>>, <<HashBytes(BlobHash(1))>>,
                <<HashBytes(BlobHash(1)), HashBytes(BlobHash(2))>>},
        ts \in {0, 300},
        a \in {<<>>, <<97>>},
        m \in {<<>>, <<109, 115, 103>>}}

\* values of object.rs and values of the stores
ObjectInputs == BlobInputs \cup {TreeOf(es) : es \in EntryLists} \cup CommitInputs
StoreInputs ==
    BlobInputs \cup {[kind |-> "tree", entries |-> es] : es \in EntryLists} \cup CommitInputs

\* indexes made by one or two add calls, and by a remove after them
IndexAdds == {add(EmptyIndex, p, h, m) : p \in PathUniverse, h \in BlobHashes, m \in Metas}
IndexInputs ==
    {EmptyIndex} \cup IndexAdds
        \cup {add(i, p, BlobHash(1), CHOOSE m \in Metas : m.exec) : i \in IndexAdds, p \in PathUniverse}
        \cup {remove(add(i, p, BlobHash(2), CHOOSE m \in Metas : ~m.exec), q).index :
                i \in IndexAdds, p \in PathUniverse, q \in PathUniverse}

NotDecoded == [res |-> "none", value |-> <<>>]

InitCodec ==
    codec = [api |-> "none", x |-> <<>>, buf |-> <<>>, y |-> NotDecoded]

(***************************************************************************)
(* The working tree and collect_status (status.rs).                        *)
(***************************************************************************)
NoFile == [data |-> 0, meta |-> [exec |-> FALSE, mtime |-> 0, size |-> 0]]

\* files an editor leaves on disk: content n with mtime and size n
WorkFiles ==
    {[data |-> 1, meta |-> [exec |-> FALSE, mtime |-> 1, size |-> 1]],
     [data |-> 2, meta |-> [exec |-> FALSE, mtime |-> 2, size |-> 2]]}

\* SortedFlatTree::default
EmptyFlatTree == [paths |-> <<>>, hashes |-> <<>>, sorted_order |-> <<>>, err |-> FALSE]

\* (no sort: the bucket stays in the order it was filled)
sort_unstable_not_sorted(strs) == strs

\* Vec<Box<str>>::sort_unstable
sort_unstable(strs) ==
    LET order == sort_by_path(strs)
    IN  [k \in 1 .. Len(strs) |-> At(strs, order[k])]

\* the order in which WalkDir meets the files of the working tree
WalkDir(wt) ==
    LET present == {p \in DOMAIN wt : wt[p] # NoFile}
        all     == CHOOSE q \in [1 .. Cardinality(DOMAIN wt) -> DOMAIN wt] :
                       \A a, b \in DOMAIN q : a # b => q[a] # q[b]
    IN  SelectSeq(all, LAMBDA p : p \in present)

collect_status_impl(idx, head, wt) ==
    LET entries == [k \in 1 .. idx.count |-> k - 1]
        staged(i) == lookup(head, get_path(idx, i)) # At(idx.hashes, i)
        disk_state(i) ==
            LET f == wt[get_path(idx, i)]
            IN  IF f = NoFile THEN "Deleted"
                ELSE IF At(idx.mtimes, i) # f.meta.mtime \/ At(idx.sizes, i) # f.meta.size
                THEN "Modified"
                ELSE "Clean"
        paths_of(is) == [k \in 1 .. Len(is) |-> get_path(idx, is[k])]
        head_paths == [j \in 1 .. Len(head.sorted_order) |->
                          At(head.paths, head.sorted_order[j])]
    IN  [staged_new_modified |->
            sort_unstable(paths_of(SelectSeq(entries, LAMBDA i : staged(i)))),
         staged_deleted |->
            sort_unstable(SelectSeq(head_paths, LAMBDA q : find(idx, q) = -1)),
         modified |->
            sort_unstable(paths_of(SelectSeq(entries, LAMBDA i : disk_state(i) = "Modified"))),
         deleted |->
            sort_unstable(paths_of(SelectSeq(entries, LAMBDA i : disk_state(i) = "Deleted"))),
         untracked |->
            sort_unstable(SelectSeq(WalkDir(wt), LAMBDA q : find(idx, q) = -1))]

\* no status collected since the last edit
NoStatus ==
    [collected |-> FALSE,
     buckets |-> [staged_new_modified |-> <<>>, staged_deleted |-> <<>>, modified |-> <<>>,
                  deleted |-> <<>>, untracked |-> <<>>]]

InitWork ==
    /\ worktree = [p \in PathUniverse |-> NoFile]
    /\ status = NoStatus

(***************************************************************************)
(* checkout (checkout.rs).                                                 *)
(***************************************************************************)
NoCheckout == [result |-> "none", tree |-> NoHash]

\* the file std::fs::write leaves for the bytes of blob h, and its metadata
written_file(h) == [data |-> h.id, meta |-> [exec |-> FALSE, mtime |-> h.id, size |-> h.id]]

\* checkout_tree_impl: the tracked files that the target tree lacks are removed
remove_untargeted(wt, idx, target_flat) ==
    [p \in DOMAIN wt |->
        IF find(idx, p) # -1 /\ lookup(target_flat, p) = NoHash THEN NoFile ELSE wt[p]]

\* (a file that exists is left as it is)
write_blobs_only_new(wt, target_flat, n) ==
    [p \in DOMAIN wt |->
        IF \E k \in 1 .. n : target_flat.paths[k] = p /\ wt[p] = NoFile
        THEN written_file(target_flat.hashes[CHOOSE k \in 1 .. n : target_flat.paths[k] = p])
        ELSE wt[p]]

\* checkout_tree_impl: the first n blobs the walk of the tree meets are written
write_blobs(wt, target_flat, n) ==
    [p \in DOMAIN wt |->
        IF \E k \in 1 .. n : target_flat.paths[k] = p
        THEN written_file(target_flat.hashes[CHOOSE k \in 1 .. n : target_flat.paths[k] = p])
        ELSE wt[p]]

\* checkout_tree_impl: new_index after the walk of the whole tree
RECURSIVE new_index_of(_, _, _)
new_index_of(acc, target_flat, k) ==
    IF k > Len(target_flat.paths) THEN acc
    ELSE new_index_of(
            add(acc, target_flat.paths[k], target_flat.hashes[k],
                written_file(target_flat.hashes[k]).meta),
            target_flat, k + 1)

InitCheckout ==
    /\ commits = <<>>
    /\ co = NoCheckout

(***************************************************************************)
(* stage (stage.rs).  The coordinator loads the index, filters the files   *)
(* of the walk, removes the entries of missing files and splits the rest   *)
(* into batches; the workers of a batch read and hash in parallel; the     *)
(* coordinator writes the batch and updates the index, and at the end      *)
(* syncs the storage and saves the index.                                  *)
(***************************************************************************)
STAGE_BATCH_MAX_BYTES == 2
STAGE_MAX_FILE_BYTES == 2

\* files on disk while stage runs: the two of WorkFiles, a file with other
\* content and the mtime and size of the first, and a file over the limit
StageFiles ==
    WorkFiles \cup
        {[data |-> 2, meta |-> [exec |-> FALSE, mtime |-> 1, size |-> 1]],
         [data |-> 1, meta |-> [exec |-> FALSE, mtime |-> 2, size |-> STAGE_MAX_FILE_BYTES + 1]]}

\* Index::load: the index the saved file decodes to
Index_load(saved) == Index_decode(Index_encode(saved)).value

\* (every file counts as modified)
is_dirty_always(idx, i, meta) == TRUE

\* Index::is_dirty
is_dirty(idx, i, meta) ==
    At(idx.mtimes, i) # meta.mtime \/ At(idx.sizes, i) # meta.size

\* walk_matching with the pattern ".": every file, sorted by path
walk_matching(wt) == sort_unstable(WalkDir(wt))

\* stage: the files that are neither over the limit nor clean in the index
files_to_process(idx, wt) ==
    SelectSeq(walk_matching(wt),
        LAMBDA p :
            /\ wt[p].meta.size <= STAGE_MAX_FILE_BYTES
            /\ find(idx, p) = -1 \/ is_dirty(idx, find(idx, p), wt[p].meta))

RECURSIVE remove_all(_, _)
remove_all(idx, to_remove) ==
    IF to_remove = <<>> THEN idx
    ELSE remove_all(remove(idx, Head(to_remove)).index, Tail(to_remove))

\* Path::exists: there is a file at the path, or the path is a directory,
\* which is there as long as a file is below it
path_exists(wt, p) ==
    \/ wt[p] # NoFile
    \/ \E q \in DOMAIN wt : wt[q] # NoFile /\ starts_with(q, p \o <<SLASH>>)

\* (no entry is removed)
stage_removes_none(idx, wt) == idx

\* stage: the entries whose path does not exist are removed from the index
stage_removes(idx, wt) ==
    LET all == [k \in 1 .. idx.count |-> get_path(idx, k - 1)]
    IN  remove_all(idx, SelectSeq(all, LAMBDA p : ~path_exists(wt, p)))

\* (every file goes to the first batch)
split_batches_one_batch(files, wt, batches, current_batch_bytes) == <<files>>

\* stage: the files are split into batches of bounded size
RECURSIVE split_batches(_, _, _, _)
split_batches(files, wt, batches, current_batch_bytes) ==
    IF files = <<>> THEN batches
    ELSE LET size  == wt[Head(files)].meta.size
             fresh == /\ current_batch_bytes + size > STAGE_BATCH_MAX_BYTES
                      /\ batches[Len(batches)] # <<>>
             bs    == IF fresh THEN Append(batches, <<>>) ELSE batches
             bytes == IF fresh THEN 0 ELSE current_batch_bytes
         IN  split_batches(Tail(files), wt,
                [bs EXCEPT ![Len(bs)] = Append(@, Head(files))], bytes + size)

\* (the hashes are taken in the order the workers finished, the files in the
\* order of the batch)
collect_completion_order(batch, processed, order) ==
    SelectSeq([k \in 1 .. Len(batch) |->
                  [path |-> batch[k],
                   hash |-> IF k <= Len(order) THEN processed[order[k]] ELSE processed[k]]],
              LAMBDA e : e.hash > 0)

\* stage: filter_map(..).collect() and the loop that fills file_infos and
\* file_metas: the files that were read, each with its hash, in batch order
collect(batch, processed, order) ==
    SelectSeq([k \in 1 .. Len(batch) |-> [path |-> batch[k], hash |-> processed[k]]],
              LAMBDA e : e.hash > 0)

\* flush_batch: index.add for every file of the batch
RECURSIVE add_infos(_, _, _)
add_infos(idx, infos, wt) ==
    IF infos = <<>> THEN idx
    ELSE add_infos(add(idx, Head(infos).path, BlobHash(Head(infos).hash),
                       wt[Head(infos).path].meta),
                   Tail(infos), wt)

NoStage ==
    [pc |-> "idle", result |-> "none", mem |-> EmptyIndex, batches |-> <<>>,
     batch |-> <<>>, processed |-> <<>>, order |-> <<>>, infos |-> <<>>]

\* stage: the loop over the batches takes the next one, whose workers start,
\* or ends
next_batch(s) ==
    IF s.batches = <<>>
    THEN [s EXCEPT !.pc = "sync", !.batch = <<>>, !.processed = <<>>, !.infos = <<>>]
    ELSE [s EXCEPT !.pc = "workers",
                   !.batch = Head(s.batches),
                   !.batches = Tail(s.batches),
                   !.processed = [k \in 1 .. Len(Head(s.batches)) |-> -1],
                   !.order = <<>>,
                   !.infos = <<>>]

InitStage == stg = NoStage

(***************************************************************************)
(* stash (stash.rs).  A stash is a commit whose tree is the flat list of    *)
(* the index entries and whose message names a second tree, the dirty      *)
(* files; refs/stash/<n> holds it.                                         *)
(***************************************************************************)
StashSlots == {0, 1}

\* no file refs/stash/<n>
NoStash == [tree |-> <<>>, dirty |-> <<>>]

\* read_stash_indexes: the numbers that name a file of refs/stash
read_stash_indexes(slots) == {n \in DOMAIN slots : slots[n] # NoStash}

\* the numbers of ns, ascending
Ascending(ns) ==
    CHOOSE q \in [1 .. Cardinality(ns) -> ns] : \A a, b \in DOMAIN q : a < b => q[a] < q[b]

\* the numbers of ns, descending
Descending(ns) ==
    CHOOSE q \in [1 .. Cardinality(ns) -> ns] : \A a, b \in DOMAIN q : a < b => q[a] > q[b]

\* fs::rename of refs/stash/<n> to refs/stash/<n + delta>, for n along ns
RECURSIVE rename_refs(_, _, _)
rename_refs(slots, ns, delta) ==
    IF ns = <<>> THEN slots
    ELSE LET n == Head(ns)
         IN  rename_refs([k \in DOMAIN slots |->
                             IF k = n + delta THEN slots[n]
                             ELSE IF k = n THEN NoStash
                             ELSE slots[k]],
                         Tail(ns), delta)

\* shift_stash_refs_up: the highest number is renamed first
shift_stash_refs_up(slots) ==
    rename_refs(slots, Descending(read_stash_indexes(slots)), 1)

\* (no file is renamed)
shift_stash_refs_stay(slots, from) == slots

\* shift_stash_refs_down_from: the numbers above from, the lowest first
shift_stash_refs_down_from(slots, from) ==
    rename_refs(slots, Ascending({n \in read_stash_indexes(slots) : n > from}), -1)

\* stash: the entries of the staged tree, one per index entry
staged_entries(idx) ==
    [k \in 1 .. idx.count |->
        [hash |-> At(idx.hashes, k - 1), name |-> get_path(idx, k - 1),
         mode |-> At(idx.modes, k - 1)]]

\* (no file counts as dirty)
dirty_entries_none(idx, wt) == <<>>

\* stash: the entries of the dirty tree, one per index entry whose file
\* exists with another mtime or size
dirty_entries(idx, wt) ==
    LET found == SelectSeq([k \in 1 .. idx.count |-> k - 1],
                     LAMBDA i : /\ wt[get_path(idx, i)] # NoFile
                                /\ is_dirty(idx, i, wt[get_path(idx, i)].meta))
    IN  [k \in 1 .. Len(found) |->
            LET f == wt[get_path(idx, found[k])]
            IN  [hash |-> BlobHash(f.data), name |-> get_path(idx, found[k]),
                 mode |-> IF f.meta.exec THEN MODE_EXEC ELSE MODE_FILE]]

\* fs::write of the blob of every entry, in order
RECURSIVE write_entries(_, _)
write_entries(wt, entries) ==
    IF entries = <<>> THEN wt
    ELSE write_entries([wt EXCEPT ![Head(entries).name] = written_file(Head(entries).hash)],
                       Tail(entries))

\* apply_stash: index.add for every entry of the staged tree
RECURSIVE add_entries(_, _)
add_entries(idx, entries) ==
    IF entries = <<>> THEN idx
    ELSE add_entries(add(idx, Head(entries).name, Head(entries).hash,
                         written_file(Head(entries).hash).meta),
                     Tail(entries))

\* stash without a HEAD commit: the tracked files are removed
remove_tracked(wt, idx) ==
    [p \in DOMAIN wt |-> IF find(idx, p) # -1 THEN NoFile ELSE wt[p]]

\* nothing remembered of the state a save found
NoBefore ==
    [refs |-> [n \in StashSlots |-> NoStash], worktree |-> [p \in PathUniverse |-> NoFile],
     index |-> EmptyIndex]

InitStash == st = [refs |-> [n \in StashSlots |-> NoStash], last |-> "none", before |-> NoBefore]

(***************************************************************************)
(* discard (discard.rs).                                                   *)
(***************************************************************************)
\* discard_all: the files the index does not track are deleted and the blob
\* of every index entry is written
discard_all(wt, idx) ==
    [p \in DOMAIN wt |->
        IF find(idx, p) # -1 THEN written_file(At(idx.hashes, find(idx, p))) ELSE NoFile]

\* walk_matching with one literal path: the file at the path, if there is one
matched_files(wt, path) == IF wt[path] = NoFile THEN <<>> ELSE <<path>>

\* discard, the loop over the matched files: a file of HEAD gets its HEAD
\* content; with an empty HEAD tree a tracked file gets its index content;
\* any other file is deleted and its entry removed from the saved index
InitDiscard == dc = [patterns |-> <<>>, result |-> "none"]

RECURSIVE discard_matched(_, _, _, _, _)
discard_matched(wt, idx, saved, head_flat, matched) ==
    IF matched = <<>> THEN [worktree |-> wt, index |-> saved]
    ELSE LET rel == Head(matched)
         IN  IF lookup(head_flat, rel) # NoHash
             THEN discard_matched([wt EXCEPT ![rel] = written_file(lookup(head_flat, rel))],
                                  idx, saved, head_flat, Tail(matched))
             ELSE IF find(idx, rel) # -1 /\ head_flat.paths = <<>>
             THEN discard_matched([wt EXCEPT ![rel] = written_file(At(idx.hashes, find(idx, rel)))],
                                  idx, saved, head_flat, Tail(matched))
             ELSE discard_matched([wt EXCEPT ![rel] = NoFile], idx,
                                  remove(Index_load(saved), rel).index, head_flat, Tail(matched))

(***************************************************************************)
(* branch (branch.rs).  A branch is the file .mog/refs/heads/<name>, which  *)
(* holds the hash of a commit; names are byte strings.                     *)
(***************************************************************************)
\* "main", "dev"
MainBranch == <<109, 97, 105, 110>>
DevBranch == <<100, 101, 118>>

\* the names given to the command: "main", "dev", "", "a/b", "a b", "a\tb",
\* "-d", "HEAD", "a\nb"
BranchNames ==
    { MainBranch, DevBranch, <<>>, <<97, 47, 98>>, <<97, 32, 98>>, <<97, 9, 98>>,
      <<45, 100>>, <<72, 69, 65, 68>>, <<97, 10, 98>> }

\* the hashes of the commits a run makes, in order
BranchCommits == {1, 2}

\* the files under .vx/refs/heads: Repository::init creates .mog only, and
\* no command creates a file under .vx
vx_heads == {}

\* branch_exists: the file .vx/refs/heads/<name> exists
branch_exists(name) == name \in vx_heads

\* str::contains(char)
contains(name, byte) == \E i \in DOMAIN name : name[i] = byte

\* validate_branch_name: the error it returns, "" for Ok
validate_branch_name(name) ==
    IF name = <<>> THEN "empty"
    ELSE IF contains(name, 47) THEN "slash"
    ELSE IF contains(name, 32) \/ contains(name, 9) THEN "whitespace"
    ELSE IF name[1] = 45 THEN "dash"
    ELSE IF name = <<72, 69, 65, 68>> THEN "HEAD"
    ELSE ""

\* Repository::read_head_commit on b; 0 when the ref HEAD names has no file
head_commit_of(b) == IF b.HEAD.symbolic THEN b.heads[b.HEAD.ref] ELSE b.HEAD.hash

\* Repository::current_branch on b; <<0>> for None
current_branch(b) == IF b.HEAD.symbolic THEN b.HEAD.ref ELSE <<0>>

\* Repository::reachable_commits: start and the commits its parents lead to
RECURSIVE reachable_commits(_, _)
reachable_commits(parents, start) ==
    IF start \notin DOMAIN parents \/ parents[start] <= 0 THEN {start}
    ELSE {start} \cup reachable_commits(parents, parents[start])

\* create: the commit the target resolves to, 0 when it resolves to none.
\* The target is absent, a hex hash or a name.
resolve_target(b, target) ==
    IF target.kind = "none" THEN head_commit_of(b)
    ELSE IF target.kind = "name"
    THEN IF branch_exists(target.name) THEN b.heads[target.name] ELSE 0
    ELSE IF target.hash \in DOMAIN b.parents /\ b.parents[target.hash] >= 0
    THEN target.hash ELSE 0

\* create(repo, name, target): the repository after the call
create(b, name, target) ==
    IF branch_exists(name)
    THEN [b EXCEPT !.last = [op |-> "create", name |-> name, err |-> "already exists"]]
    ELSE IF validate_branch_name(name) # ""
    THEN [b EXCEPT !.last = [op |-> "create", name |-> name, err |-> validate_branch_name(name)]]
    ELSE IF resolve_target(b, target) = 0
    THEN [b EXCEPT !.last = [op |-> "create", name |-> name, err |-> "target"]]
    ELSE [b EXCEPT !.heads[name] = resolve_target(b, target),
                   !.last = [op |-> "create", name |-> name, err |-> ""]]

\* delete(repo, name): the repository after the call (the file it removes
\* is .vx/refs/heads/<name>)
delete(b, name) ==
    LET others == UNION { reachable_commits(b.parents, b.heads[o]) :
                            o \in {x \in vx_heads : x # name /\ b.heads[x] # 0} }
    IN  IF ~branch_exists(name)
        THEN [b EXCEPT !.last = [op |-> "delete", name |-> name, err |-> "not found"]]
        ELSE IF current_branch(b) = name
        THEN [b EXCEPT !.last = [op |-> "delete", name |-> name, err |-> "checked out"]]
        ELSE IF b.heads[name] = 0
        THEN [b EXCEPT !.last = [op |-> "delete", name |-> name, err |-> "read_ref"]]
        ELSE IF b.heads[name] \notin others
        THEN [b EXCEPT !.last = [op |-> "delete", name |-> name, err |-> "not merged"]]
        ELSE [b EXCEPT !.last = [op |-> "delete", name |-> name, err |-> ""]]

\* rename(repo, old, new): the repository after the call (write_ref writes
\* under .mog; the file removed and the HEAD rewritten are under .vx)
rename(b, old, new) ==
    IF ~branch_exists(old)
    THEN [b EXCEPT !.last = [op |-> "rename", name |-> new, err |-> "not found"]]
    ELSE IF branch_exists(new)
    THEN [b EXCEPT !.last = [op |-> "rename", name |-> new, err |-> "already exists"]]
    ELSE IF validate_branch_name(new) # ""
    THEN [b EXCEPT !.last = [op |-> "rename", name |-> new, err |-> validate_branch_name(new)]]
    ELSE IF b.heads[old] = 0
    THEN [b EXCEPT !.last = [op |-> "rename", name |-> new, err |-> "read_ref"]]
    ELSE [b EXCEPT !.heads[new] = b.heads[old],
                   !.last = [op |-> "rename", name |-> new, err |-> ""]]

InitBranch ==
    br = [HEAD    |-> [symbolic |-> TRUE, ref |-> MainBranch, hash |-> 0],
          heads   |-> [n \in BranchNames |-> 0],
          parents |-> [c \in BranchCommits |-> -1],
          last    |-> [op |-> "none", name |-> <<>>, err |-> ""]]

(***************************************************************************)
(* log (log.rs) over the object database as read_object sees it: a hash    *)
(* names no object, a blob, or a commit with its parents.                  *)
(***************************************************************************)
LogHashes == {1, 2, 3}

NoObject == [kind |-> "none", parents |-> <<>>]

\* (the commit without a parent ends the walk before it is printed)
log_step_stops_early(l) ==
    LET obj == l.objs[l.current]
    IN  IF obj.kind = "none" THEN [l EXCEPT !.pc = "failed"]
        ELSE IF obj.kind # "commit" THEN l
        ELSE IF obj.parents = <<>> THEN [l EXCEPT !.pc = "done"]
        ELSE [l EXCEPT !.out = Append(@, l.current), !.current = obj.parents[1]]

\* log: one turn of the loop.  read_object fails for a hash without an
\* object; an object that is no commit is skipped with `continue` and
\* current stays; a commit is printed and its first parent is the next
log_step(l) ==
    LET obj == l.objs[l.current]
    IN  IF obj.kind = "none" THEN [l EXCEPT !.pc = "failed"]
        ELSE IF obj.kind # "commit" THEN l
        ELSE IF obj.parents = <<>>
        THEN [l EXCEPT !.out = Append(@, l.current), !.pc = "done"]
        ELSE [l EXCEPT !.out = Append(@, l.current), !.current = obj.parents[1]]

InitLog ==
    lg = [objs |-> [h \in LogHashes |-> NoObject], HEAD |-> 0, pc |-> "idle", turn |-> 0,
          current |-> 0, out |-> <<>>]

(***************************************************************************)
(* Object cache (cache.rs) and the reads of Repository that go through it   *)
(* (repository.rs).  The cache holds encoded records by hash, the order     *)
(* they were inserted in and the sum of their lengths.                      *)
(***************************************************************************)
\* capacity of the cache in bytes (1024 * 1024 in the program)
CACHE_MAX_BYTES == 3

CacheHashes == {1, 2, 3, 4}

\* the encoded record of each hash: its tag, the bytes of its payload and
\* its encoded length; the last one is longer than the cache
CacheRecords ==
    [h \in CacheHashes |->
        CASE h = 1 -> [tag |-> "blob", data |-> <<1>>, len |-> 1]
          [] h = 2 -> [tag |-> "blob", data |-> <<2, 2>>, len |-> 2]
          [] h = 3 -> [tag |-> "tree", data |-> <<3>>, len |-> CACHE_MAX_BYTES]
          [] h = 4 -> [tag |-> "blob", data |-> <<4, 4, 4>>,
                       len |-> CACHE_MAX_BYTES + 1]]

NoRecord == [tag |-> "none", data |-> <<>>, len |-> 0]

ObjectCache_default == [map |-> <<>>, order |-> <<>>, total_bytes |-> 0]

ObjectCache_contains(c, hash) == hash \in DOMAIN c.map

ObjectCache_get(c, hash) ==
    IF hash \in DOMAIN c.map THEN c.map[hash] ELSE NoRecord

\* map.remove: the map without the key
map_remove(map, hash) == [k \in (DOMAIN map) \ {hash} |-> map[k]]

\* map.insert: the map with the key bound to the record
map_insert(map, hash, rec) ==
    [k \in (DOMAIN map) \cup {hash} |-> IF k = hash THEN rec ELSE map[k]]

RECURSIVE evict_newest(_)
RECURSIVE evict(_)
\* (the entry taken out is the one inserted last)
evict_newest(c) ==
    IF c.total_bytes <= CACHE_MAX_BYTES \/ c.order = <<>> THEN c
    ELSE LET evicted_hash == c.order[Len(c.order)]
             rest == SubSeq(c.order, 1, Len(c.order) - 1)
         IN  evict_newest([map |-> map_remove(c.map, evicted_hash),
                           order |-> rest,
                           total_bytes |->
                               IF c.total_bytes >= c.map[evicted_hash].len
                               THEN c.total_bytes - c.map[evicted_hash].len
                               ELSE 0])
\* the while loop of insert: pop_front until the total fits or the queue is
\* empty; a hash of the queue that the map no longer holds subtracts nothing
evict(c) ==
    IF c.total_bytes <= CACHE_MAX_BYTES \/ c.order = <<>> THEN c
    ELSE LET evicted_hash == Head(c.order)
         IN  IF evicted_hash \in DOMAIN c.map
             THEN evict([map |-> map_remove(c.map, evicted_hash),
                         order |-> Tail(c.order),
                         total_bytes |->
                             IF c.total_bytes >= c.map[evicted_hash].len
                             THEN c.total_bytes - c.map[evicted_hash].len
                             ELSE 0])
             ELSE evict([c EXCEPT !.order = Tail(c.order)])

\* (a hash already held is counted and queued again)
ObjectCache_insert_recount(c, hash, rec) ==
    evict([map |-> map_insert(c.map, hash, rec),
           order |-> Append(c.order, hash),
           total_bytes |-> c.total_bytes + rec.len])
ObjectCache_insert(c, hash, rec) ==
    IF hash \in DOMAIN c.map THEN c
    ELSE evict([map |-> map_insert(c.map, hash, rec),
                order |-> Append(c.order, hash),
                total_bytes |-> c.total_bytes + rec.len])

\* a blob record gives its payload, any other record is an error
decode_blob_bytes(rec) ==
    IF rec.tag = "blob" THEN [kind |-> "ok", bytes |-> rec.data]
    ELSE [kind |-> "err", bytes |-> <<>>]

NoValue == [kind |-> "none", bytes |-> <<>>]

\* the cache after the call and what the call gives: the record is read from
\* the database and inserted when the cache does not hold it, then looked up
\* in the cache and unwrapped
read_blob_bytes_without_touching_stores(c, db, hash) ==
    IF ~ObjectCache_contains(c, hash) /\ hash \notin db
    THEN [cache |-> c, val |-> [kind |-> "err", bytes |-> <<>>]]
    ELSE LET c2 == IF ObjectCache_contains(c, hash) THEN c
                   ELSE ObjectCache_insert(c, hash, CacheRecords[hash])
             cached == ObjectCache_get(c2, hash)
         IN  IF cached = NoRecord
             THEN [cache |-> c2, val |-> [kind |-> "panic", bytes |-> <<>>]]
             ELSE [cache |-> c2, val |-> decode_blob_bytes(cached)]

\* the hashes that left the queue c.order when hash was inserted and the
\* queue became order
evicted_hashes(c, hash, order) ==
    LET pushed == IF hash \in DOMAIN c.map THEN c.order ELSE Append(c.order, hash)
    IN  SelectSeq(pushed, LAMBDA h : \A i \in 1 .. Len(order) : order[i] # h)

InitCache ==
    oc = [db |-> {}, cache |-> ObjectCache_default, evicted |-> <<>>,
          ret |-> [op |-> "new", hash |-> 0, val |-> NoValue]]

(***************************************************************************)
(* The header of objects.bin when the file is opened (storage.rs).          *)
(***************************************************************************)
MAGIC == <<86, 88, 79, 66>>
VERSION == 1

\* objects.bin as found on disk: its length and its first eight bytes, the
\* magic and the version; files written by this program, by something else
\* and by a program with another version number
HeaderLens == {HEADER_SIZE - 1, HEADER_SIZE, DATA_START}
HeaderMagics == {MAGIC, OBJECT_MAGIC, INDEX_MAGIC, <<0, 0, 0, 0>>}
HeaderVersions == {0, VERSION, VERSION + 1, 256}
HeaderFiles ==
    {[len |-> l, head |-> m \o to_le_bytes(v, 4)] :
        l \in HeaderLens, m \in HeaderMagics, v \in HeaderVersions}

\* Storage::create_new: the header of a new file
create_new_header ==
    [len |-> DATA_START, head |-> MAGIC \o to_le_bytes(VERSION, 4)]

\* Storage::open_existing: the length and the magic are looked at, nothing
\* else of the header is
open_existing_header(file, fail) ==
    IF fail THEN [ok |-> FALSE, err |-> "io", file_len |-> 0]
    ELSE IF file.len < HEADER_SIZE
    THEN [ok |-> FALSE, err |-> "corrupted object database", file_len |-> 0]
    ELSE IF Slice(file.head, 0, 4) # MAGIC
    THEN [ok |-> FALSE, err |-> "invalid object database magic", file_len |-> 0]
    ELSE [ok |-> TRUE, err |-> "", file_len |-> file.len]

NoOpen == [ok |-> FALSE, err |-> "none", file_len |-> 0]

\* objects.bin does not exist
NoHeaderFile == [len |-> 0, head |-> <<>>]

InitHeader == hd = [file |-> NoHeaderFile, ret |-> NoOpen]

(***************************************************************************)
(* checkout_path (checkout.rs): one path of a commit is restored.  The      *)
(* working tree has the files "b" and "a/b" an editor writes and "a/a/b".   *)
(***************************************************************************)
CpPaths == { <<98>>, <<97, 47, 98>>, <<97, 47, 97, 47, 98>> }
CpEditPaths == { <<98>>, <<97, 47, 98>> }
\* the path given to checkout_path: "a", "b", "a/b", "c"
CpArgs == { <<97>>, <<98>>, <<97, 47, 98>>, <<99>> }

\* path.trim_matches('/').split('/').filter(|s| !s.is_empty())
RECURSIVE split_components(_, _, _)
split_components(path, k, cur) ==
    IF k > Len(path) THEN (IF cur = <<>> THEN <<>> ELSE <<cur>>)
    ELSE IF path[k] = SLASH
         THEN (IF cur = <<>> THEN <<>> ELSE <<cur>>) \o split_components(path, k + 1, <<>>)
         ELSE split_components(path, k + 1, Append(cur, path[k]))

\* TreeStore::find_entry: the hash of the first entry with the name
find_entry(tree, name) ==
    IF \E j \in 1 .. Len(tree.entries) : tree.entries[j].name = name
    THEN tree.entries[CHOOSE j \in 1 .. Len(tree.entries) :
            /\ tree.entries[j].name = name
            /\ \A i \in 1 .. j - 1 : tree.entries[i].name # name].hash
    ELSE NoHash

\* Repository::walk_tree_path from the component k on
RECURSIVE walk_components(_, _, _)
walk_components(current, components, k) ==
    LET hash == find_entry(current, components[k])
    IN  IF hash = NoHash THEN [ok |-> FALSE, hash |-> NoHash]
        ELSE IF k = Len(components) THEN [ok |-> TRUE, hash |-> hash]
        ELSE IF hash.tag # "tree" THEN [ok |-> FALSE, hash |-> NoHash]
        ELSE walk_components(hash, components, k + 1)

walk_tree_path(tree_hash, path) ==
    LET components == split_components(path, 1, <<>>)
    IN  IF tree_hash.tag # "tree" \/ components = <<>>
        THEN [ok |-> FALSE, hash |-> NoHash]
        ELSE walk_components(tree_hash, components, 1)

\* the paths of the walk of checkout_tree_impl: every child path is the
\* prefix of the first frame, a '/' and the path below the tree walked
child_paths(flat, prefix) ==
    IF prefix = <<>> THEN flat
    ELSE [flat EXCEPT !.paths = [k \in 1 .. Len(flat.paths) |->
                                    prefix \o <<SLASH>> \o flat.paths[k]]]

\* checkout_tree_impl(repo, tree_hash, prefix): the working tree and the
\* index it saves
checkout_tree_impl(wt, idx, objs, tree_hash, prefix) ==
    LET target_flat == flatten_tree(objs, tree_hash)
        removed     == remove_untargeted(wt, idx, target_flat)
        walked      == child_paths(target_flat, prefix)
    IN  [wt    |-> write_blobs(removed, walked, Len(walked.paths)),
         index |-> new_index_of(EmptyIndex, walked, 1)]

\* Index::update_from_tree_recursive: every blob below the tree is added
\* with the metadata of the file at prefix/path; a missing file is an error
RECURSIVE update_entries(_, _, _, _)
update_entries(idx, wt, flat, k) ==
    IF k > Len(flat.paths) THEN [ok |-> TRUE, index |-> idx]
    ELSE IF wt[flat.paths[k]] = NoFile THEN [ok |-> FALSE, index |-> idx]
    ELSE update_entries(add(idx, flat.paths[k], flat.hashes[k], wt[flat.paths[k]].meta),
                        wt, flat, k + 1)

update_from_tree_recursive(idx, wt, objs, tree_hash, prefix) ==
    update_entries(idx, wt, child_paths(flatten_tree(objs, tree_hash), prefix), 1)

\* checkout_path(repo, target, path) for the commit whose tree is tree_hash
checkout_path(wt, idx, objs, tree_hash, path) ==
    LET found == walk_tree_path(tree_hash, path)
        impl  == checkout_tree_impl(wt, idx, objs, tree_hash, path)
        upd   == update_from_tree_recursive(idx, impl.wt, objs, found.hash, path)
    IN  IF ~found.ok
        THEN [wt |-> wt, index |-> idx, kind |-> "none", ok |-> FALSE]
        ELSE IF found.hash.tag = "blob"
        THEN [wt    |-> [wt EXCEPT ![path] = written_file(found.hash)],
              index |-> add(idx, path, found.hash, written_file(found.hash).meta),
              kind  |-> "blob", ok |-> TRUE]
        ELSE IF upd.ok
        THEN [wt |-> impl.wt, index |-> upd.index, kind |-> "tree", ok |-> TRUE]
        ELSE [wt |-> impl.wt, index |-> impl.index, kind |-> "tree", ok |-> FALSE]

NoCheckoutPath == [op |-> "none", path |-> <<>>, kind |-> "none", ok |-> TRUE]

InitCheckoutPath ==
    cp = [wt |-> [p \in CpPaths |-> NoFile], index |-> EmptyIndex,
          objects |-> {}, tree |-> NoHash, ret |-> NoCheckoutPath]

(***************************************************************************)
(* Trees written from an index that stage filled (stage.rs, index.rs).  The *)
(* working tree has the paths "a", "a/b" and "b"; "a" is a file or a        *)
(* directory.                                                               *)
(***************************************************************************)
TwPaths == { <<97>>, <<97, 47, 98>>, <<98>> }

\* the file system lets a path be written when it is not a directory and no
\* directory above it is a file
writable(wt, p) ==
    \A q \in DOMAIN wt :
        (q # p /\ wt[q] # NoFile) =>
            /\ ~starts_with(q, p \o <<SLASH>>)
            /\ ~starts_with(p, q \o <<SLASH>>)

\* stage with the pattern ".", every batch written and the index saved
stage(idx, wt) ==
    LET files == files_to_process(idx, wt)
        infos == [k \in 1 .. Len(files) |-> [path |-> files[k], hash |-> wt[files[k]].data]]
    IN  add_infos(stage_removes(idx, wt), infos, wt)

InitTreeWrite ==
    tw = [wt |-> [p \in TwPaths |-> NoFile], index |-> EmptyIndex,
          objects |-> {}, root |-> NoHash]

(***************************************************************************)
(* Two processes with a Storage each on the same objects.bin (storage.rs).  *)
(* The file and the mapping of its header and bucket table are shared; the  *)
(* cached file length and the pending queue are the process's own.          *)
(***************************************************************************)
Procs == {1, 2}
ShHashes == {1, 2}

\* the encoded bytes of the object of hash h; every record has the same size
ShData(h) == <<h>>
ShRecordSize == ENTRY_HEADER_SIZE + Len(ShData(1))

\* File::set_len: the file is cut or extended with zero bytes; a record
\* that reached beyond the new length is no longer whole
set_len(dk, len) ==
    SelectSeq(dk, LAMBDA r : r.off + ENTRY_HEADER_SIZE + Len(r.data) <= len)

\* write_at of the buffer: the records of writes replace the bytes from off on
write_at(dk, writes, off) ==
    LET new == layout(writes, off, TRUE)
        end == off + SumSizes(writes)
    IN  SelectSeq(dk, LAMBDA r :
            r.off + ENTRY_HEADER_SIZE + Len(r.data) <= off \/ r.off >= end) \o new

NoProc ==
    [pc |-> "closed", file_len |-> 0, mmap_len |-> 0, pending_writes |-> <<>>,
     writes |-> <<>>, current_size |-> 0, count |-> 0, written |-> <<>>, ok |-> TRUE]

InitShared ==
    sh = [len |-> DATA_START, disk |-> <<>>,
          buckets |-> [b \in 0 .. (HASH_TABLE_BUCKETS - 1) |-> 0],
          count |-> 0, procs |-> [p \in Procs |-> NoProc]]

(***************************************************************************)
(* Refs. Repository::init writes HEAD = "ref: refs/heads/main"; no branch   *)
(* file exists yet.                                                        *)
(***************************************************************************)
Branches == {"main"}

\* objects.bin as a process that opens it now finds it
FileView == [buckets |-> buckets, count |-> count, len |-> disk_len,
             records |-> {disk[i] : i \in {j \in 1 .. Len(disk) : disk[j].present}}]

InitRepository ==
    /\ HEAD = [symbolic |-> TRUE, ref |-> "main", hash |-> 0]
    /\ refs = [b \in Branches |-> 0]
    /\ pc = "idle"
    /\ commit_hash = 0
    /\ cmd = [result |-> "none", at_start |-> FileView]

\* room left in the data region for n more records
Room(n) == Len(disk) + Len(pending_writes) + n <= MaxRecords

(***************************************************************************)
(* Init: Storage::create_new on a fresh repository.                        *)
(***************************************************************************)
Init ==
    /\ buckets = [b \in 0 .. (HASH_TABLE_BUCKETS - 1) |-> 0]
    /\ count = 0
    /\ disk = <<>>
    /\ disk_len = DATA_START
    /\ file_len = DATA_START
    /\ mmap_len = DATA_START
    /\ pending_writes = <<>>
    /\ last = [op |-> "create_new", ok |-> TRUE, hashes |-> <<>>]
    /\ InitRepository
    /\ InitIndex
    /\ InitCodec
    /\ InitWork
    /\ InitCheckout
    /\ InitStage
    /\ InitStash
    /\ InitBranch
    /\ InitDiscard
    /\ InitLog
    /\ InitCache
    /\ InitHeader
    /\ InitCheckoutPath
    /\ InitTreeWrite
    /\ InitShared

Write ==
    \E h \in Hashes :
        /\ Room(1)
        /\ Len(pending_writes) < MaxPending
        /\ SetStorage(write_of(St, h, DataOf(h)))
        /\ last' = [op |-> "write", ok |-> TRUE, hashes |-> <<>>]
        /\ UNCHANGED outside_storage

Batches == UNION {[1 .. n -> Hashes] : n \in 1 .. MaxPending}

WriteBatch ==
    \E hs \in Batches, fail \in Failures :
        /\ Room(Len(hs))
        /\ LET s == write_batch_of(St, [i \in 1 .. Len(hs) |-> [hash |-> hs[i], data |-> DataOf(hs[i])]], fail)
           IN  /\ SetStorage(s)
               /\ last' = [op |-> "write_batch", ok |-> s.ok, hashes |-> <<>>]
               /\ UNCHANGED outside_storage

Flush ==
    \E fail \in Failures :
        LET s == flush_of(St, fail)
        IN  /\ SetStorage(s)
            /\ last' = [op |-> "flush", ok |-> s.ok,
                        hashes |-> [i \in 1 .. Len(pending_writes) |-> pending_writes[i].hash]]
            /\ UNCHANGED outside_storage

\* Storage::sync (msync + fsync) changes no byte of the file; stage calls it
\* once after its write_batch calls.
Sync ==
    /\ last.op = "write_batch"
    /\ UNCHANGED storage_vars
    /\ last' = [op |-> "sync", ok |-> TRUE, hashes |-> <<>>]
    /\ UNCHANGED outside_storage

\* Storage::evict_pages (madvise DONTNEED on a shared file mapping) drops
\* page-cache pages of a slice that read returned; the bytes come back from
\* the file on the next access.
EvictPages ==
    /\ last.op \in {"open_existing", "flush"}
    /\ \E h \in Hashes : read(h).res = "ok"
    /\ UNCHANGED storage_vars
    /\ last' = [op |-> "evict_pages", ok |-> TRUE, hashes |-> <<>>]
    /\ UNCHANGED outside_storage

\* The command returns: Storage is dropped (Drop flushes and ignores the
\* result) and the next command opens the file again.
Reopen ==
    \E fail \in Failures :
        /\ SetStorage(open_existing_of(flush_of(St, fail)))
        /\ last' = [op |-> "open_existing", ok |-> TRUE, hashes |-> <<>>]
        /\ UNCHANGED outside_storage

\* The process is killed: nothing is dropped, the queue is lost.
Crash ==
    /\ SetStorage(open_existing_of(St))
    /\ last' = [op |-> "crash", ok |-> TRUE, hashes |-> <<>>]
    /\ UNCHANGED outside_storage

Next ==
    \/ Write
    \/ WriteBatch
    \/ Flush
    \/ Sync
    \/ EvictPages
    \/ Reopen
    \/ Crash

Spec == Init /\ [][Next]_vars

(***************************************************************************)
(* The commit command (commit.rs). Every command runs in a process of its  *)
(* own: it opens the repository, runs, and drops it on return.             *)
(***************************************************************************)
\* Repository::read_head_commit; 0 when HEAD names a ref that has no file
read_head_commit == IF HEAD.symbolic THEN refs[HEAD.ref] ELSE HEAD.hash

\* The command is over: the Repository is dropped, which flushes whatever is
\* still queued and ignores the outcome; the next command maps the file anew.
drop_and_open(s, fail) == open_existing_of(flush_of(s, fail))

\* commit(): the commit object is pushed and queued by write_object
CommitWriteObject ==
    \E h \in Hashes :
        /\ pc = "idle"
        /\ Room(1)
        /\ SetStorage(write_of(St, h, DataOf(h)))
        /\ commit_hash' = h
        /\ pc' = "written"
        /\ cmd' = [result |-> "running", at_start |-> FileView]
        /\ UNCHANGED <<HEAD, refs, outside_commit>>

\* (HEAD itself is overwritten, whatever its form)
CommitUpdateRef_always_detaches ==
    /\ pc = "written"
    /\ HEAD' = [symbolic |-> FALSE, ref |-> "", hash |-> commit_hash]
    /\ UNCHANGED refs
    /\ pc' = "ref_written"
    /\ UNCHANGED <<storage_vars, outside_commit, commit_hash, cmd>>

\* commit(): HEAD is read and the ref it names, or HEAD itself when it is
\* detached, is overwritten with the new hash
CommitUpdateRef ==
    /\ pc = "written"
    /\ IF HEAD.symbolic
       THEN /\ refs' = [refs EXCEPT ![HEAD.ref] = commit_hash]
            /\ UNCHANGED HEAD
       ELSE /\ HEAD' = [symbolic |-> FALSE, ref |-> "", hash |-> commit_hash]
            /\ UNCHANGED refs
    /\ pc' = "ref_written"
    /\ UNCHANGED <<storage_vars, outside_commit, commit_hash, cmd>>

\* commit(): the final flush, then the command returns its result
CommitFlush ==
    \E fail \in Failures :
        LET s == flush_of(St, fail)
        IN  /\ pc = "ref_written"
            /\ SetStorage(drop_and_open(s, "none"))
            /\ cmd' = [cmd EXCEPT !.result = IF s.ok THEN "ok" ELSE "failed"]
            /\ pc' = "idle"
            /\ UNCHANGED <<HEAD, refs, outside_commit, commit_hash>>

\* commit(): reading HEAD or writing the ref fails with an I/O error; the
\* error is returned to main and the Repository is dropped
CommitIoError ==
    \E fail \in Failures :
        /\ pc = "written"
        /\ SetStorage(drop_and_open(St, fail))
        /\ cmd' = [cmd EXCEPT !.result = "failed"]
        /\ pc' = "idle"
        /\ UNCHANGED <<HEAD, refs, outside_commit, commit_hash>>

\* the process is killed inside commit(): nothing is dropped
CommitCrash ==
    /\ pc \in {"written", "ref_written"}
    /\ SetStorage(open_existing_of(St))
    /\ cmd' = [cmd EXCEPT !.result = "crashed"]
    /\ pc' = "idle"
    /\ UNCHANGED <<HEAD, refs, outside_commit, commit_hash>>

\* checkout(): the target is a branch whose tip is readable, or the hash of a
\* readable commit; HEAD becomes symbolic or detached. (The working tree and
\* the index are not part of this specification.)
CheckoutHead ==
    /\ pc = "idle"
    /\ \/ \E b \in Branches :
             /\ refs[b] # 0
             /\ read(refs[b]).res = "ok"
             /\ HEAD' = [symbolic |-> TRUE, ref |-> b, hash |-> 0]
       \/ \E h \in Hashes :
             /\ read(h).res = "ok"
             /\ HEAD' = [symbolic |-> FALSE, ref |-> "", hash |-> h]
    /\ HEAD' # HEAD
    /\ cmd' = [result |-> "ok", at_start |-> FileView]
    /\ UNCHANGED <<storage_vars, outside_commit, refs, pc, commit_hash>>

NextCommit ==
    \/ CommitWriteObject
    \/ CommitUpdateRef
    \/ CommitFlush
    \/ CommitIoError
    \/ CommitCrash
    \/ CheckoutHead

SpecCommit == Init /\ [][NextCommit]_vars

\* Repository::init on the repository that exists: HEAD is written anew,
\* Storage::new opens objects.bin, and the Repository is dropped
RepositoryInit ==
    /\ pc = "idle"
    /\ HEAD' = [symbolic |-> TRUE, ref |-> "main", hash |-> 0]
    /\ SetStorage(drop_and_open(open_existing_of(St), "none"))
    /\ cmd' = [result |-> "init", at_start |-> FileView]
    /\ UNCHANGED <<refs, commit_hash, pc, outside_commit>>

NextInit ==
    \/ NextCommit
    \/ RepositoryInit

SpecInit == Init /\ [][NextInit]_vars

(***************************************************************************)
(* Index calls and the trees written from the index.                       *)
(***************************************************************************)
\* entries the index may hold
MaxEntries == 3

ResetTrees ==
    /\ index2' = EmptyIndex
    /\ root' = NoHash
    /\ root2' = NoHash
    /\ tree_objects' = {}

IndexAdd ==
    \E path \in PathUniverse, h \in BlobHashes, meta \in Metas :
        /\ find(index, path) # -1 \/ index.count < MaxEntries
        /\ index' = add(index, path, h, meta)
        /\ last_added' = [last_added EXCEPT ![path] = h]
        /\ index_ret' = [op |-> "add", ret |-> TRUE]
        /\ ResetTrees
        /\ UNCHANGED outside_index

IndexRemove ==
    \E path \in PathUniverse :
        LET r == remove(index, path)
        IN  /\ index' = r.index
            /\ last_added' = [last_added EXCEPT ![path] = NoHash]
            /\ index_ret' = [op |-> "remove", ret |-> r.ret]
            /\ ResetTrees
            /\ UNCHANGED outside_index

\* the entries of idx added to acc in the order given by order, with another
\* mtime and size
RECURSIVE add_in_order(_, _, _)
add_in_order(acc, idx, order) ==
    IF order = <<>> THEN acc
    ELSE LET i == Head(order)
         IN  add_in_order(
                add(acc, get_path(idx, i), At(idx.hashes, i),
                    [exec  |-> At(idx.modes, i) = MODE_EXEC,
                     mtime |-> At(idx.mtimes, i) + 10,
                     size  |-> At(idx.sizes, i) + 10]),
                idx, Tail(order))

\* orders in which the entries of an index of n entries are added again:
\* reversed, rotated by one, and the same order
Orders(n) ==
    {[k \in 1 .. n |-> n - k], [k \in 1 .. n |-> k % n], [k \in 1 .. n |-> k - 1]}

WriteTree ==
    LET r == write_tree(index, tree_objects)
    IN  /\ root = NoHash
        /\ root' = r.hash
        /\ tree_objects' = r.objects
        /\ UNCHANGED <<index, index2, last_added, index_ret, root2>>
        /\ UNCHANGED outside_index

\* a second Index receives the same entries through another order of adds and
\* writes its tree
WriteTreeSecond ==
    \E order \in Orders(index.count) :
        LET second == add_in_order(EmptyIndex, index, order)
            r      == write_tree(second, tree_objects)
        IN  /\ index.count > 0
            /\ root # NoHash
            /\ root2 = NoHash
            /\ index2' = second
            /\ root2' = r.hash
            /\ tree_objects' = r.objects
            /\ UNCHANGED <<index, last_added, index_ret, root>>
            /\ UNCHANGED outside_index

NextIndex ==
    \/ IndexAdd
    \/ IndexRemove
    \/ WriteTree
    \/ WriteTreeSecond

SpecIndex == Init /\ [][NextIndex]_vars

(***************************************************************************)
(* Encoding a value and decoding the bytes.                                *)
(***************************************************************************)
ObjectEncode ==
    \E x \in ObjectInputs :
        /\ codec' = [api |-> "Object", x |-> x, buf |-> Object_encode(x), y |-> NotDecoded]
        /\ UNCHANGED outside_codec

ObjectDecode ==
    /\ codec.api = "Object"
    /\ codec.y = NotDecoded
    /\ codec' = [codec EXCEPT !.y = Object_decode(codec.buf)]
    /\ UNCHANGED outside_codec

StoreEncode ==
    \E x \in StoreInputs :
        /\ codec' = [api |-> "stores", x |-> x, buf |-> encode_object_into(x), y |-> NotDecoded]
        /\ UNCHANGED outside_codec

StoreDecode ==
    /\ codec.api = "stores"
    /\ codec.y = NotDecoded
    /\ codec' = [codec EXCEPT !.y = decode_into_stores(codec.buf)]
    /\ UNCHANGED outside_codec

\* Index::save
IndexEncode ==
    \E x \in IndexInputs :
        /\ codec' = [api |-> "Index", x |-> x, buf |-> Index_encode(x), y |-> NotDecoded]
        /\ UNCHANGED outside_codec

\* Index::load
IndexDecode ==
    /\ codec.api = "Index"
    /\ codec.y = NotDecoded
    /\ codec' = [codec EXCEPT !.y = Index_decode(codec.buf)]
    /\ UNCHANGED outside_codec

NextCodec ==
    \/ ObjectEncode
    \/ ObjectDecode
    \/ StoreEncode
    \/ StoreDecode
    \/ IndexEncode
    \/ IndexDecode

SpecCodec == Init /\ [][NextCodec]_vars

(***************************************************************************)
(* The status command between edits of the index and of the working tree. *)
(* root is the tree of the HEAD commit, NoHash before the first commit.    *)
(***************************************************************************)
\* the paths the status runs are about
StatusPaths == { <<97, 45>>, <<97, 47, 98>>, <<98>> }

\* an editor writes or deletes a file
StatusWriteFile ==
    \E path \in StatusPaths, f \in WorkFiles \cup {NoFile} :
        /\ worktree' = [worktree EXCEPT ![path] = f]
        /\ status' = NoStatus
        /\ UNCHANGED <<index, root, tree_objects>>
        /\ UNCHANGED outside_status

StatusIndexAdd ==
    \E path \in StatusPaths, f \in WorkFiles :
        /\ index' = add(index, path, BlobHash(f.data), f.meta)
        /\ status' = NoStatus
        /\ UNCHANGED <<worktree, root, tree_objects>>
        /\ UNCHANGED outside_status

StatusIndexRemove ==
    \E path \in StatusPaths :
        /\ index' = remove(index, path).index
        /\ status' = NoStatus
        /\ UNCHANGED <<worktree, root, tree_objects>>
        /\ UNCHANGED outside_status

\* the first commit makes the tree of the index the tree of HEAD
StatusCommitTree ==
    LET r == write_tree(index, tree_objects)
    IN  /\ root = NoHash
        /\ root' = r.hash
        /\ tree_objects' = r.objects
        /\ status' = NoStatus
        /\ UNCHANGED <<index, worktree>>
        /\ UNCHANGED outside_status

CollectStatus ==
    LET head_flat == IF root = NoHash THEN EmptyFlatTree
                     ELSE flatten_tree(tree_objects, root)
    IN  /\ ~head_flat.err
        /\ status' = [collected |-> TRUE,
                      buckets |-> collect_status_impl(index, head_flat, worktree)]
        /\ UNCHANGED <<index, worktree, root, tree_objects>>
        /\ UNCHANGED outside_status

NextStatus ==
    \/ StatusWriteFile
    \/ StatusIndexAdd
    \/ StatusIndexRemove
    \/ StatusCommitTree
    \/ CollectStatus

SpecStatus == Init /\ [][NextStatus]_vars

(***************************************************************************)
(* The checkout command between edits and commits.                         *)
(***************************************************************************)
\* the commits of a run and the paths the checkouts are about
CommitIds == {1, 2}
CheckoutPaths == { <<97, 47, 98>>, <<98>> }

\* the contents an editor gives to the file at path: two for "b", one for "a/b"
CheckoutFiles(path) ==
    IF path = <<98>> THEN WorkFiles ELSE {f \in WorkFiles : f.data = 1}

\* where a checkout may fail with an I/O error
CheckoutFailures == {"none", "read_object", "flatten_tree", "write", "save", "HEAD"}

\* an editor writes or deletes a file
CheckoutWriteFile ==
    \E path \in CheckoutPaths :
      \E f \in CheckoutFiles(path) \cup {NoFile} :
        /\ worktree' = [worktree EXCEPT ![path] = f]
        /\ co' = NoCheckout
        /\ UNCHANGED <<index, HEAD, refs, commits, tree_objects>>
        /\ UNCHANGED outside_checkout

CheckoutIndexAdd ==
    \E path \in CheckoutPaths :
      \E f \in CheckoutFiles(path) :
        /\ index' = add(index, path, BlobHash(f.data), f.meta)
        /\ co' = NoCheckout
        /\ UNCHANGED <<worktree, HEAD, refs, commits, tree_objects>>
        /\ UNCHANGED outside_checkout

CheckoutIndexRemove ==
    \E path \in CheckoutPaths :
        /\ index' = remove(index, path).index
        /\ co' = NoCheckout
        /\ UNCHANGED <<worktree, HEAD, refs, commits, tree_objects>>
        /\ UNCHANGED outside_checkout

\* commit of the tree of the index: the commit object, then the ref of HEAD
CheckoutCommit ==
    LET r == write_tree(index, tree_objects)
        c == Len(commits) + 1
    IN  /\ c \in CommitIds
        /\ commits' = Append(commits, r.hash)
        /\ tree_objects' = r.objects
        /\ IF HEAD.symbolic
           THEN /\ refs' = [refs EXCEPT ![HEAD.ref] = c]
                /\ UNCHANGED HEAD
           ELSE /\ HEAD' = [symbolic |-> FALSE, ref |-> "", hash |-> c]
                /\ UNCHANGED refs
        /\ co' = NoCheckout
        /\ UNCHANGED <<index, worktree>>
        /\ UNCHANGED outside_checkout

\* checkout(repo, target), the whole call, for the commit c that target
\* names: it fails at the step fail, in the walk after n blobs are written
Checkout(target, is_branch, c) ==
    LET target_flat == flatten_tree(tree_objects, commits[c])
        branch_head == [symbolic |-> TRUE, ref |-> target, hash |-> 0]
        removed     == remove_untargeted(worktree, index, target_flat)
    IN  /\ c \in 1 .. Len(commits)
        /\ ~target_flat.err
        /\ \E fail \in CheckoutFailures, n \in 0 .. Len(target_flat.paths) :
            /\ fail = "write" => n < Len(target_flat.paths)
            /\ fail # "write" => n = Len(target_flat.paths)
            /\ is_branch => fail # "HEAD"
            /\ co' = [result |-> IF fail = "none" THEN "ok" ELSE "err", tree |-> commits[c]]
            /\ HEAD' = IF is_branch
                       THEN (IF fail = "read_object" THEN HEAD ELSE branch_head)
                       ELSE (IF fail = "none"
                             THEN [symbolic |-> FALSE, ref |-> "", hash |-> c] ELSE HEAD)
            /\ worktree' = IF fail \in {"read_object", "flatten_tree"} THEN worktree
                           ELSE write_blobs(removed, target_flat, n)
            /\ index' = IF fail \in {"none", "HEAD"}
                        THEN new_index_of(EmptyIndex, target_flat, 1) ELSE index
        /\ UNCHANGED <<refs, commits, tree_objects>>
        /\ UNCHANGED outside_checkout

CheckoutBranch ==
    \E b \in Branches :
        /\ refs[b] # 0
        /\ Checkout(b, TRUE, refs[b])

CheckoutDetached ==
    \E c \in CommitIds : Checkout(c, FALSE, c)

NextCheckout ==
    \/ CheckoutWriteFile
    \/ CheckoutIndexAdd
    \/ CheckoutIndexRemove
    \/ CheckoutCommit
    \/ CheckoutBranch
    \/ CheckoutDetached

SpecCheckout == Init /\ [][NextCheckout]_vars

(***************************************************************************)
(* The stage command.                                                      *)
(***************************************************************************)
StagePaths == { <<97, 47, 98>>, <<98>> }

\* the files written at a path: every size at "b", one byte at "a/b"
StageFilesAt(p) == IF p = <<98>> THEN StageFiles ELSE {f \in StageFiles : f.meta.size = 1}

\* a file is written, rewritten or deleted between two commands
StageEdit ==
    \E p \in StagePaths : \E f \in StageFilesAt(p) \cup {NoFile} :
        /\ stg.pc = "idle"
        /\ worktree[p] # f
        /\ worktree' = [worktree EXCEPT ![p] = f]
        /\ stg' = NoStage
        /\ UNCHANGED <<storage_vars, index>>
        /\ UNCHANGED outside_stage

\* stage up to the first batch: Index::load, the dirty filter, the removes,
\* the split into batches
StageStart ==
    \E fail \in BOOLEAN :
        LET idx == Index_load(index)
            bs  == split_batches(files_to_process(idx, worktree), worktree, << <<>> >>, 0)
        IN  /\ stg.pc = "idle"
            /\ stg' = IF fail THEN [NoStage EXCEPT !.result = "err"]
                      ELSE next_batch([NoStage EXCEPT !.result = "running",
                                                      !.mem = stage_removes(idx, worktree),
                                                      !.batches = bs])
            /\ UNCHANGED <<storage_vars, index, worktree>>
            /\ UNCHANGED outside_stage

\* a worker of the batch reads its file, encodes and hashes it, or fails to
\* read it
StageWorker ==
    \E k \in 1 .. Len(stg.batch), ok \in BOOLEAN :
        /\ stg.pc = "workers"
        /\ stg.processed[k] = -1
        /\ stg' = [stg EXCEPT !.processed[k] = IF ok THEN worktree[stg.batch[k]].data ELSE 0,
                              !.order = Append(@, k)]
        /\ UNCHANGED <<storage_vars, index, worktree>>
        /\ UNCHANGED outside_stage

\* (the batch is written as soon as one worker has finished)
StageWriteBatch_no_barrier ==
    \E fail \in Failures :
        LET infos   == collect(stg.batch, stg.processed, stg.order)
            entries == [k \in 1 .. Len(infos) |->
                           [hash |-> infos[k].hash, data |-> DataOf(infos[k].hash)]]
            s       == write_batch_of(St, entries, fail)
        IN  /\ stg.pc = "workers"
            /\ \E k \in 1 .. Len(stg.batch) : stg.processed[k] # -1
            /\ Room(Len(infos))
            /\ IF infos = <<>>
               THEN /\ fail = "none"
                    /\ stg' = next_batch(stg)
                    /\ UNCHANGED storage_vars
               ELSE IF s.ok
               THEN /\ SetStorage(s)
                    /\ stg' = [stg EXCEPT !.pc = "add", !.infos = infos]
               ELSE /\ SetStorage(drop_and_open(s, "none"))
                    /\ stg' = [NoStage EXCEPT !.result = "err"]
            /\ UNCHANGED <<index, worktree>>
            /\ UNCHANGED outside_stage

\* the workers of the batch have all returned: processed is collected and
\* flush_batch calls Storage::write_batch; an error ends the command
StageWriteBatch ==
    \E fail \in Failures :
        LET infos   == collect(stg.batch, stg.processed, stg.order)
            entries == [k \in 1 .. Len(infos) |->
                           [hash |-> infos[k].hash, data |-> DataOf(infos[k].hash)]]
            s       == write_batch_of(St, entries, fail)
        IN  /\ stg.pc = "workers"
            /\ \A k \in 1 .. Len(stg.batch) : stg.processed[k] # -1
            /\ Room(Len(infos))
            /\ IF infos = <<>>
               THEN /\ fail = "none"
                    /\ stg' = next_batch(stg)
                    /\ UNCHANGED storage_vars
               ELSE IF s.ok
               THEN /\ SetStorage(s)
                    /\ stg' = [stg EXCEPT !.pc = "add", !.infos = infos]
               ELSE /\ SetStorage(drop_and_open(s, "none"))
                    /\ stg' = [NoStage EXCEPT !.result = "err"]
            /\ UNCHANGED <<index, worktree>>
            /\ UNCHANGED outside_stage

\* flush_batch: the files of the batch are added to the index in memory
StageIndexAdd ==
    /\ stg.pc = "add"
    /\ stg' = next_batch([stg EXCEPT !.mem = add_infos(@, stg.infos, worktree)])
    /\ UNCHANGED <<storage_vars, index, worktree>>
    /\ UNCHANGED outside_stage

\* stage: Storage::sync after the last batch
StageSync ==
    \E fail \in BOOLEAN :
        /\ stg.pc = "sync"
        /\ IF fail
           THEN /\ SetStorage(drop_and_open(St, "none"))
                /\ stg' = [NoStage EXCEPT !.result = "err"]
           ELSE /\ UNCHANGED storage_vars
                /\ stg' = [stg EXCEPT !.pc = "save"]
        /\ UNCHANGED <<index, worktree>>
        /\ UNCHANGED outside_stage

\* stage: Index::save, then the command returns and the Repository is dropped
StageSave ==
    \E fail \in BOOLEAN :
        /\ stg.pc = "save"
        /\ index' = IF fail THEN index ELSE stg.mem
        /\ stg' = [NoStage EXCEPT !.result = IF fail THEN "err" ELSE "ok"]
        /\ SetStorage(drop_and_open(St, "none"))
        /\ UNCHANGED worktree
        /\ UNCHANGED outside_stage

\* the process is killed inside stage
StageCrash ==
    /\ stg.pc # "idle"
    /\ SetStorage(open_existing_of(St))
    /\ stg' = [NoStage EXCEPT !.result = "crashed"]
    /\ UNCHANGED <<index, worktree>>
    /\ UNCHANGED outside_stage

NextStage ==
    \/ StageEdit
    \/ StageStart
    \/ StageWorker
    \/ StageWriteBatch
    \/ StageIndexAdd
    \/ StageSync
    \/ StageSave
    \/ StageCrash

SpecStage == Init /\ [][NextStage]_vars

(***************************************************************************)
(* The stash command.                                                      *)
(***************************************************************************)
\* between two commands: a file is written or deleted, or the first commit
\* makes the tree of the index the tree of HEAD; while refs/stash is empty a
\* file is staged as it is, or a path is unstaged
StashEdit ==
    /\ \/ \E p \in CheckoutPaths : \E f \in CheckoutFiles(p) \cup {NoFile} :
             /\ worktree[p] # f
             /\ worktree' = [worktree EXCEPT ![p] = f]
             /\ UNCHANGED <<index, root, tree_objects>>
       \/ \E p \in CheckoutPaths :
             /\ read_stash_indexes(st.refs) = {}
             /\ worktree[p] # NoFile
             /\ index' = add(index, p, BlobHash(worktree[p].data), worktree[p].meta)
             /\ UNCHANGED <<worktree, root, tree_objects>>
       \/ \E p \in CheckoutPaths :
             /\ read_stash_indexes(st.refs) = {}
             /\ find(index, p) # -1
             /\ index' = remove(index, p).index
             /\ UNCHANGED <<worktree, root, tree_objects>>
       \/ LET r == write_tree(index, tree_objects)
          IN  /\ root = NoHash
              /\ index.count > 0
              /\ root' = r.hash
              /\ tree_objects' = r.objects
              /\ UNCHANGED <<index, worktree>>
    /\ st' = [st EXCEPT !.last = "none", !.before = NoBefore]
    /\ UNCHANGED outside_stash

\* stash(repo), the whole call; it fails at the step fail, with a HEAD
\* commit after n files of HEAD were written
StashSave ==
    \E fail \in {"none", "flush", "restore"} :
        LET idx       == Index_load(index)
            staged    == staged_entries(idx)
            dirty     == dirty_entries(idx, worktree)
            head_flat == IF root = NoHash THEN EmptyFlatTree ELSE flatten_tree(tree_objects, root)
            new_refs  == [shift_stash_refs_up(st.refs) EXCEPT ![0] = [tree |-> staged, dirty |-> dirty]]
            found     == [refs |-> st.refs, worktree |-> worktree, index |-> idx]
        IN  /\ \A n \in read_stash_indexes(st.refs) : n + 1 \in StashSlots
            /\ ~head_flat.err
            /\ IF staged = <<>> /\ dirty = <<>>
               THEN /\ fail = "none"
                    /\ st' = [st EXCEPT !.last = "noop", !.before = NoBefore]
                    /\ UNCHANGED <<index, worktree>>
               ELSE IF fail = "flush"
               THEN /\ st' = [st EXCEPT !.last = "err", !.before = NoBefore]
                    /\ UNCHANGED <<index, worktree>>
               ELSE \E n \in 0 .. Len(head_flat.paths) :
                    /\ fail = "none" => n = Len(head_flat.paths)
                    /\ st' = [refs |-> new_refs,
                              last |-> IF fail = "none" THEN "saved" ELSE "err",
                              before |-> IF fail = "none" THEN found ELSE NoBefore]
                    /\ worktree' = IF root # NoHash THEN write_blobs(worktree, head_flat, n)
                                   ELSE remove_tracked(worktree, idx)
                    /\ index' = IF fail # "none" THEN index
                                ELSE IF root # NoHash THEN new_index_of(EmptyIndex, head_flat, 1)
                                ELSE EmptyIndex
            /\ UNCHANGED <<root, tree_objects>>
            /\ UNCHANGED outside_stash

\* stash_apply(repo, i) and stash_pop(repo): apply_stash of the commit of
\* the slot, which fails before its first write or goes through; pop then
\* removes slot 0 and shifts the others down
StashApplyOrPop ==
    \E i \in StashSlots, pop \in BOOLEAN, fail \in BOOLEAN :
        LET stash == st.refs[i]
            wt    == write_entries(write_entries(worktree, stash.tree), stash.dirty)
            idx   == add_entries(Index_load(index), stash.tree)
            ok    == stash # NoStash /\ ~fail
        IN  /\ pop => i = 0
            /\ stash = NoStash => ~fail
            /\ worktree' = IF ok THEN wt ELSE worktree
            /\ index' = IF ok THEN idx ELSE index
            /\ st' = [refs   |-> IF ok /\ pop
                                 THEN shift_stash_refs_down_from([st.refs EXCEPT ![0] = NoStash], 0)
                                 ELSE st.refs,
                      last   |-> IF ~ok THEN "err"
                                 ELSE IF ~pop THEN "applied"
                                 ELSE IF st.last = "saved" THEN "saved_popped"
                                 ELSE "popped",
                      before |-> IF ok /\ pop /\ st.last = "saved" THEN st.before ELSE NoBefore]
            /\ UNCHANGED <<root, tree_objects>>
            /\ UNCHANGED outside_stash

\* stash_drop(repo, i)
StashDrop ==
    \E i \in StashSlots :
        /\ st' = IF st.refs[i] = NoStash
                 THEN [st EXCEPT !.last = "err", !.before = NoBefore]
                 ELSE [refs   |-> shift_stash_refs_down_from([st.refs EXCEPT ![i] = NoStash], i),
                       last   |-> "dropped",
                       before |-> NoBefore]
        /\ UNCHANGED <<index, worktree, root, tree_objects>>
        /\ UNCHANGED outside_stash

NextStash ==
    \/ StashEdit
    \/ StashSave
    \/ StashApplyOrPop
    \/ StashDrop

SpecStash == Init /\ [][NextStash]_vars

(***************************************************************************)
(* The discard command.                                                    *)
(***************************************************************************)
\* discard(repo, &[]): no path is given; the call fails before its first
\* write or goes through
DiscardAll ==
    \E fail \in BOOLEAN :
        /\ worktree' = IF fail THEN worktree ELSE discard_all(worktree, Index_load(index))
        /\ dc' = [patterns |-> <<>>, result |-> IF fail THEN "err" ELSE "ok"]
        /\ UNCHANGED index
        /\ UNCHANGED outside_discard

\* discard(repo, &[path]); the call fails before its first write or goes
\* through
DiscardPath(path) ==
    \E fail \in BOOLEAN :
        LET head_flat == IF root = NoHash THEN EmptyFlatTree ELSE flatten_tree(tree_objects, root)
            r == discard_matched(worktree, Index_load(index), index, head_flat,
                                 matched_files(worktree, path))
        IN  /\ ~head_flat.err
            /\ worktree' = IF fail THEN worktree ELSE r.worktree
            /\ index' = IF fail THEN index ELSE r.index
            /\ dc' = [patterns |-> <<path>>, result |-> IF fail THEN "err" ELSE "ok"]
            /\ UNCHANGED outside_discard

DiscardPaths == \E path \in CheckoutPaths : DiscardPath(path)

NextDiscard ==
    \/ StashEdit
    \/ DiscardAll
    \/ DiscardPaths

SpecDiscard == Init /\ [][NextDiscard]_vars

(***************************************************************************)
(* The branch command, with the commits and checkouts that move HEAD.      *)
(***************************************************************************)
\* commit(): the next commit has the commit of HEAD as its parent, and the
\* branch HEAD names, or HEAD itself when it is detached, moves to it
BranchCommit ==
    \E c \in BranchCommits :
        /\ br.parents[c] = -1
        /\ \A d \in BranchCommits : d < c => br.parents[d] # -1
        /\ br' = [br EXCEPT
                    !.parents[c] = head_commit_of(br),
                    !.heads = IF br.HEAD.symbolic THEN [br.heads EXCEPT ![br.HEAD.ref] = c] ELSE @,
                    !.HEAD = IF br.HEAD.symbolic THEN @ ELSE [@ EXCEPT !.hash = c],
                    !.last = [op |-> "commit", name |-> <<>>, err |-> ""]]
        /\ UNCHANGED outside_branch

\* checkout of a branch that has a ref under .mog, or of the hash of a commit
BranchCheckout ==
    /\ \/ \E n \in BranchNames :
             /\ br.heads[n] # 0
             /\ br' = [br EXCEPT !.HEAD = [symbolic |-> TRUE, ref |-> n, hash |-> 0],
                                 !.last = [op |-> "checkout", name |-> n, err |-> ""]]
       \/ \E c \in BranchCommits :
             /\ br.parents[c] # -1
             /\ br' = [br EXCEPT !.HEAD = [symbolic |-> FALSE, ref |-> <<>>, hash |-> c],
                                 !.last = [op |-> "checkout", name |-> <<>>, err |-> ""]]
    /\ UNCHANGED outside_branch

BranchCreate ==
    \E name \in BranchNames :
        \E target \in {[kind |-> "none", name |-> <<>>, hash |-> 0]}
                      \cup {[kind |-> "hex", name |-> <<>>, hash |-> c] : c \in BranchCommits}
                      \cup {[kind |-> "name", name |-> n, hash |-> 0] : n \in {MainBranch, DevBranch}} :
            /\ br' = create(br, name, target)
            /\ UNCHANGED outside_branch

BranchDelete ==
    \E name \in BranchNames :
        /\ br' = delete(br, name)
        /\ UNCHANGED outside_branch

BranchRename ==
    \E old \in {MainBranch, DevBranch}, new \in BranchNames :
        /\ br' = rename(br, old, new)
        /\ UNCHANGED outside_branch

NextBranch ==
    \/ BranchCommit
    \/ BranchCheckout
    \/ BranchCreate
    \/ BranchDelete
    \/ BranchRename

SpecBranch == Init /\ [][NextBranch]_vars

(***************************************************************************)
(* The log command, with the writes that build the commit graph.           *)
(***************************************************************************)
\* write_blob: a blob is stored under a new hash
LogWriteBlob ==
    \E h \in LogHashes :
        /\ lg.pc # "running"
        /\ lg.objs[h] = NoObject
        /\ lg' = [lg EXCEPT !.objs[h] = [kind |-> "blob", parents |-> <<>>], !.pc = "idle"]
        /\ UNCHANGED outside_log

\* commit(): the new commit has what HEAD resolves to as its only parent,
\* none before the first commit, and HEAD moves to it
LogCommit ==
    \E h \in LogHashes :
        /\ lg.pc # "running"
        /\ lg.objs[h] = NoObject
        /\ lg' = [lg EXCEPT
                    !.objs[h] = [kind |-> "commit",
                                 parents |-> IF lg.HEAD = 0 THEN <<>> ELSE <<lg.HEAD>>],
                    !.HEAD = h, !.pc = "idle"]
        /\ UNCHANGED outside_log

\* HEAD, or the ref it names, comes to hold the hash of an object of the
\* database: checkout for a commit, a ref file written by hand otherwise
LogHeadAt ==
    \E h \in LogHashes :
        /\ lg.pc # "running"
        /\ lg.objs[h] # NoObject
        /\ lg.HEAD # h
        /\ lg' = [lg EXCEPT !.HEAD = h, !.pc = "idle"]
        /\ UNCHANGED outside_log

\* log: read_head_commit; without a commit the message is printed and the
\* call returns
LogStart ==
    /\ lg.pc # "running"
    /\ lg' = [lg EXCEPT !.pc = IF lg.HEAD = 0 THEN "done" ELSE "running",
                        !.current = lg.HEAD, !.out = <<>>, !.turn = 0]
    /\ UNCHANGED outside_log

\* one turn of the loop; turn is the parity of the turns taken, so that a
\* turn that reads the same object again is a step of its own
LogStep ==
    /\ lg.pc = "running"
    /\ lg' = [log_step(lg) EXCEPT !.turn = 1 - lg.turn]
    /\ UNCHANGED outside_log

NextLog ==
    \/ LogWriteBlob
    \/ LogCommit
    \/ LogHeadAt
    \/ LogStart
    \/ LogStep

SpecLog == Init /\ [][NextLog]_vars

\* the scheduler keeps running the process that is inside log
SpecLogLive == SpecLog /\ WF_vars(LogStep)

(***************************************************************************)
(* Object cache: objects are written to the database, records are inserted  *)
(* and looked up, blobs are read through the cache, and a new process       *)
(* starts with an empty cache.                                              *)
(***************************************************************************)
\* write_object or write_blob followed by the flush of the storage
CacheWrite ==
    \E h \in CacheHashes :
        /\ h \notin oc.db
        /\ oc' = [oc EXCEPT !.db = @ \cup {h}, !.evicted = <<>>,
                            !.ret = [op |-> "write", hash |-> h, val |-> NoValue]]
        /\ UNCHANGED outside_cache

CacheInsert ==
    \E h \in CacheHashes :
        /\ oc' = [oc EXCEPT !.cache = ObjectCache_insert(@, h, CacheRecords[h]),
                            !.evicted = evicted_hashes(oc.cache, h,
                                ObjectCache_insert(oc.cache, h, CacheRecords[h]).order),
                            !.ret = [op |-> "insert", hash |-> h, val |-> NoValue]]
        /\ UNCHANGED outside_cache

CacheGet ==
    \E h \in CacheHashes :
        /\ oc' = [oc EXCEPT !.evicted = <<>>,
                            !.ret = [op |-> "get", hash |-> h,
                                     val |-> [kind |-> IF ObjectCache_get(oc.cache, h) = NoRecord
                                                       THEN "miss" ELSE "hit",
                                              bytes |-> ObjectCache_get(oc.cache, h).data]]]
        /\ UNCHANGED outside_cache

\* a panic ends the process, and its cache with it
ReadBlobBytes ==
    \E h \in CacheHashes :
        LET r == read_blob_bytes_without_touching_stores(oc.cache, oc.db, h)
        IN  /\ oc' = [oc EXCEPT !.cache = IF r.val.kind = "panic"
                                          THEN ObjectCache_default ELSE r.cache,
                                !.evicted = evicted_hashes(oc.cache, h, r.cache.order),
                                !.ret = [op |-> "read_blob", hash |-> h, val |-> r.val]]
            /\ UNCHANGED outside_cache

\* the next command builds its Repository with ObjectCache::default()
CacheNew ==
    /\ oc.cache # ObjectCache_default
    /\ oc' = [oc EXCEPT !.cache = ObjectCache_default, !.evicted = <<>>,
                        !.ret = [op |-> "new", hash |-> 0, val |-> NoValue]]
    /\ UNCHANGED outside_cache

NextCache == CacheWrite \/ CacheInsert \/ CacheGet \/ ReadBlobBytes \/ CacheNew

SpecCache == Init /\ [][NextCache]_vars

(***************************************************************************)
(* Opening objects.bin: Storage::new creates the file when there is none    *)
(* and opens it otherwise, and the file is replaced by one with another     *)
(* header.                                                                  *)
(***************************************************************************)
HeaderCreateNew ==
    /\ hd.file = NoHeaderFile
    /\ hd' = [file |-> create_new_header,
              ret |-> [ok |-> TRUE, err |-> "", file_len |-> DATA_START]]
    /\ UNCHANGED outside_header

HeaderPut ==
    \E f \in HeaderFiles :
        /\ hd' = [file |-> f, ret |-> NoOpen]
        /\ UNCHANGED outside_header

HeaderOpen ==
    \E fail \in BOOLEAN :
        /\ hd.file # NoHeaderFile
        /\ hd' = [hd EXCEPT !.ret = open_existing_header(hd.file, fail)]
        /\ UNCHANGED outside_header

NextHeader == HeaderCreateNew \/ HeaderPut \/ HeaderOpen

SpecHeader == Init /\ [][NextHeader]_vars

(***************************************************************************)
(* checkout_path: an editor writes files, files are staged, the index is    *)
(* committed, and a path of the commit is checked out.                      *)
(***************************************************************************)
CpWriteFile ==
    \E path \in CpEditPaths :
      \E f \in CheckoutFiles(path) \cup {NoFile} :
        /\ cp' = [cp EXCEPT !.wt[path] = f,
                            !.ret = [NoCheckoutPath EXCEPT !.op = "edit"]]
        /\ UNCHANGED outside_checkout_path

\* stage of one file as it is on disk
CpIndexAdd ==
    \E path \in CpEditPaths :
        /\ cp.wt[path] # NoFile
        /\ cp' = [cp EXCEPT !.index = add(@, path, BlobHash(cp.wt[path].data),
                                          cp.wt[path].meta),
                            !.ret = [NoCheckoutPath EXCEPT !.op = "stage"]]
        /\ UNCHANGED outside_checkout_path

\* commit of the tree of the index, on the branch checkout_path is given
CpCommit ==
    LET r == write_tree(cp.index, cp.objects)
    IN  /\ cp.index.count > 0
        /\ \A i \in 0 .. cp.index.count - 1 : get_path(cp.index, i) \in CpEditPaths
        /\ cp' = [cp EXCEPT !.objects = r.objects, !.tree = r.hash,
                            !.ret = [NoCheckoutPath EXCEPT !.op = "commit"]]
        /\ UNCHANGED outside_checkout_path

CpCheckoutPath ==
    \E path \in CpArgs :
        LET r == checkout_path(cp.wt, cp.index, cp.objects, cp.tree, path)
        IN  /\ cp.tree # NoHash
            /\ cp' = [cp EXCEPT !.wt = r.wt, !.index = r.index,
                                !.ret = [op |-> "checkout_path", path |-> path,
                                         kind |-> r.kind, ok |-> r.ok]]
            /\ UNCHANGED outside_checkout_path

NextCheckoutPath == CpWriteFile \/ CpIndexAdd \/ CpCommit \/ CpCheckoutPath

SpecCheckoutPath == Init /\ [][NextCheckoutPath]_vars

(***************************************************************************)
(* An editor writes and deletes files, stage fills the index, and commit    *)
(* writes the trees of the index.                                           *)
(***************************************************************************)
TwWriteFile ==
    \E p \in TwPaths :
      \E f \in CheckoutFiles(p) \cup {NoFile} :
        /\ f # NoFile => writable(tw.wt, p)
        /\ tw' = [tw EXCEPT !.wt[p] = f]
        /\ UNCHANGED outside_tree_write

TwStage ==
    /\ tw' = [tw EXCEPT !.index = stage(Index_load(tw.index), tw.wt)]
    /\ UNCHANGED outside_tree_write

\* objects holds the trees that this write_tree writes
TwWriteTree ==
    LET r == write_tree(tw.index, {})
    IN  /\ tw' = [tw EXCEPT !.objects = r.objects, !.root = r.hash]
        /\ UNCHANGED outside_tree_write

NextTreeWrite == TwWriteFile \/ TwStage \/ TwWriteTree

SpecTreeWrite == Init /\ [][NextTreeWrite]_vars

(***************************************************************************)
(* Two processes on one objects.bin.  A step is one system call or one pass *)
(* over the shared mapping.                                                 *)
(***************************************************************************)
\* Storage::new on the existing file
ShOpen(p) ==
    /\ sh.procs[p].pc = "closed"
    /\ sh' = [sh EXCEPT !.procs[p] =
                 [NoProc EXCEPT !.pc = "open", !.file_len = sh.len, !.mmap_len = sh.len]]
    /\ UNCHANGED outside_shared

\* Storage::write
ShWrite(p) ==
    \E h \in ShHashes :
        /\ sh.procs[p].pc = "open"
        /\ Len(sh.procs[p].pending_writes) < MaxPending
        /\ ~exists_in(sh.buckets, sh.disk, sh.procs[p].mmap_len, h)
        /\ sh' = [sh EXCEPT !.procs[p].pending_writes =
                                Append(@, [hash |-> h, data |-> ShData(h)])]
        /\ UNCHANGED outside_shared

\* flush: the queue is taken, the cached length grows, set_len
ShSetLen(p) ==
    LET q       == sh.procs[p]
        new_len == q.file_len + SumSizes(q.pending_writes)
    IN  /\ q.pc = "open"
        /\ q.pending_writes # <<>>
        /\ new_len <= DATA_START + MaxRecords * ShRecordSize
        /\ sh' = [sh EXCEPT !.len = new_len,
                            !.disk = set_len(@, new_len),
                            !.procs[p] = [q EXCEPT !.pc = "write_at",
                                                   !.writes = q.pending_writes,
                                                   !.pending_writes = <<>>,
                                                   !.current_size = q.file_len,
                                                   !.file_len = new_len]]
        /\ UNCHANGED outside_shared

\* flush: one write_at of the buffer at the length the process had cached
ShWriteAt(p) ==
    LET q   == sh.procs[p]
        end == q.current_size + SumSizes(q.writes)
    IN  /\ q.pc = "write_at"
        /\ sh' = [sh EXCEPT !.disk = write_at(@, q.writes, q.current_size),
                            !.len = IF end > @ THEN end ELSE @,
                            !.procs[p] = [q EXCEPT !.pc = "buckets",
                                                   !.written = layout(q.writes, q.current_size, TRUE)]]
        /\ UNCHANGED outside_shared

\* flush: the bucket loop over the shared table; "hash table full" ends the
\* flush with an error
ShBuckets(p) ==
    LET q   == sh.procs[p]
        ins == insert_buckets(sh.buckets, q.writes, q.current_size)
    IN  /\ q.pc = "buckets"
        /\ sh' = [sh EXCEPT !.buckets = ins.buckets,
                            !.procs[p] = [q EXCEPT !.pc = IF ins.full THEN "open" ELSE "count",
                                                   !.ok = ~ins.full]]
        /\ UNCHANGED outside_shared

\* flush: the count is read from the header
ShCountRead(p) ==
    /\ sh.procs[p].pc = "count"
    /\ sh' = [sh EXCEPT !.procs[p].pc = "count_write", !.procs[p].count = sh.count]
    /\ UNCHANGED outside_shared

\* flush: the count plus the number of writes is stored, sync, Ok
ShCountWrite(p) ==
    LET q == sh.procs[p]
    IN  /\ q.pc = "count_write"
        /\ sh' = [sh EXCEPT !.count = q.count + Len(q.writes),
                            !.procs[p] = [q EXCEPT !.pc = "open", !.ok = TRUE]]
        /\ UNCHANGED outside_shared

NextShared ==
    \E p \in Procs :
        \/ ShOpen(p)
        \/ ShWrite(p)
        \/ ShSetLen(p)
        \/ ShWriteAt(p)
        \/ ShBuckets(p)
        \/ ShCountRead(p)
        \/ ShCountWrite(p)

SpecShared == Init /\ [][NextShared]_vars

(***************************************************************************)
(* Properties of the object database.                                      *)
(***************************************************************************)
Buckets == 0 .. (HASH_TABLE_BUCKETS - 1)

\* the buckets whose record carries hash h
BucketsOf(h) == {b \in Buckets : buckets[b] # 0 /\ RecordAt(disk, buckets[b]).hash = h}

PublishedHashes == {h \in Hashes : BucketsOf(h) # {}}

\* C1: however often the same hash is written (write with or without a flush
\* in between, or twice in one write_batch), one bucket refers to it and the
\* header count has grown by one for it.
C1_OneRecordPerHash ==
    /\ \A h \in Hashes : Cardinality(BucketsOf(h)) <= 1
    /\ count <= Cardinality(PublishedHashes)

\* C2: after a successful flush every hash that was queued exists and reads
\* back as the bytes that were queued, on the same Storage instance.
C2_VisibleAfterFlush ==
    (last.op = "flush" /\ last.ok) =>
        \A i \in 1 .. Len(last.hashes) :
            /\ exists(last.hashes[i])
            /\ read(last.hashes[i]) = [res |-> "ok", data |-> DataOf(last.hashes[i])]

\* C5: a published record never changes: a non-empty bucket keeps its offset,
\* the record bytes at that offset stay, and a hash that read returned bytes
\* for returns the same bytes after every later operation.
C5_Step ==
    /\ \A b \in Buckets :
            buckets[b] # 0 =>
                /\ buckets'[b] = buckets[b]
                /\ RecordAt(disk', buckets[b]) = RecordAt(disk, buckets[b])
    /\ \A h \in Hashes :
            read(h).res = "ok" =>
                read_in(buckets', disk', mmap_len', h) = read(h)

C5_PublishedImmutable == [][C5_Step]_vars

\* a record of an earlier command is readable while a later flush has
\* published more records
C5_Witness ==
    /\ last.op = "flush" /\ last.ok /\ Len(last.hashes) > 0
    /\ \E h \in Hashes : read(h).res = "ok"

\* the buckets on the linear-probe path from bucket from up to bucket to
ProbePath(from, to) ==
    {(from + d) % HASH_TABLE_BUCKETS :
        d \in 0 .. ((to - from + HASH_TABLE_BUCKETS) % HASH_TABLE_BUCKETS)}

ValidBucket(b) ==
    LET O == buckets[b]
    IN  /\ O >= DATA_START
        /\ \E i \in 1 .. Len(disk) :
              /\ disk[i].off = O
              /\ disk[i].present
              /\ disk[i].hash \in Hashes
              /\ O + ENTRY_HEADER_SIZE + Len(disk[i].data) <= disk_len
              /\ \A p \in ProbePath(hash_to_bucket(disk[i].hash), b) : buckets[p] # 0

\* C6: after every successful flush or write_batch each non-empty bucket
\* holds the offset of a whole record inside the data region, and probing
\* for that record's hash reaches the bucket.
C6_ValidTable ==
    (last.op \in {"flush", "write_batch"} /\ last.ok) =>
        \A b \in Buckets : buckets[b] # 0 => ValidBucket(b)

\* a successful flush or write_batch has left a record in a bucket that is
\* not its home bucket
C6_Witness ==
    /\ last.op \in {"flush", "write_batch"} /\ last.ok
    /\ \E b \in Buckets :
          /\ buckets[b] # 0
          /\ hash_to_bucket(RecordAt(disk, buckets[b]).hash) # b

(***************************************************************************)
(* Properties of the index and of the trees written from it.               *)
(***************************************************************************)
\* the paths added and not removed since
Live == {p \in PathUniverse : last_added[p] # NoHash}

\* C7: after any sequence of add and remove the index is a map from path to
\* the last hash stored: find(p) gives a position holding p and the last hash
\* added for p when p was added and not removed since, None otherwise; count
\* is the number of such paths; removing an absent path returns false and
\* changes nothing, removing a present one returns true.
C7_IndexIsMap ==
    /\ index.count = Cardinality(Live)
    /\ \A p \in PathUniverse :
        LET i == find(index, p)
        IN  IF p \in Live
            THEN /\ i >= 0
                 /\ i < index.count
                 /\ get_path(index, i) = p
                 /\ At(index.hashes, i) = last_added[p]
                 /\ remove(index, p).ret
            ELSE /\ i = -1
                 /\ remove(index, p) = [index |-> index, ret |-> FALSE]

\* a remove returned true and left entries behind, one of them re-added with
\* another hash
C7_Witness ==
    /\ index_ret.op = "remove"
    /\ index_ret.ret
    /\ index.count = 2
    /\ \E p \in Live : last_added[p] = BlobHash(2)
    /\ \E p \in Live : find(index, p) = 1 /\ Len(index.path_index[path_hash(p)]) > 1

\* the (path, mode, blob hash) entries of an index
EntrySet(idx) ==
    {[path |-> get_path(idx, k), mode |-> At(idx.modes, k), hash |-> At(idx.hashes, k)] :
        k \in 0 .. (idx.count - 1)}

\* C8: write_tree returns the same root hash for two indexes that hold the
\* same set of (path, mode, blob hash) entries, whatever the order of the
\* calls that produced them and whatever their mtime and size.
C8_SameEntriesSameRoot ==
    (root # NoHash /\ root2 # NoHash /\ EntrySet(index) = EntrySet(index2))
        => root = root2

\* two indexes of the same entries in different orders and with different
\* mtimes and sizes, the first one produced with a remove, both written
C8_Witness ==
    /\ root # NoHash
    /\ root2 # NoHash
    /\ index.count = 2
    /\ index_ret.op = "remove"
    /\ EntrySet(index) = EntrySet(index2)
    /\ get_path(index, 0) # get_path(index2, 0)
    /\ index.mtimes # index2.mtimes
    /\ index.sizes # index2.sizes
    /\ \E k \in 0 .. (index.count - 1) : starts_with(get_path(index, k), <<97, 47>>)

\* C9: in every tree written by write_tree the entries of each directory are
\* in byte-wise ascending order of their names.
C9_EntriesAscendingByName ==
    \A t \in tree_objects :
        \A k \in 1 .. (Len(t.entries) - 1) :
            BytesLess(t.entries[k].name, t.entries[k + 1].name)

\* paths that no index holds: "a", "a/c", "c"
UnrelatedPaths == { <<97>>, <<97, 47, 99>>, <<99>> }

\* C10: flatten_tree of the root written from the index has as many entries
\* as the index, and lookup gives the hash of the index for every path of the
\* index and None for every other path.
C10_FlatTreeComplete ==
    root # NoHash =>
        LET flat == flatten_tree(tree_objects, root)
        IN  /\ ~flat.err
            /\ Len(flat.paths) = index.count
            /\ Len(flat.sorted_order) = index.count
            /\ \A p \in PathUniverse \cup UnrelatedPaths :
                LET i == find(index, p)
                IN  lookup(flat, p) = IF i = -1 THEN NoHash ELSE At(index.hashes, i)

\* a tree of nested directories written from an index of three entries
C10_Witness ==
    /\ root # NoHash
    /\ index.count = 3
    /\ find(index, <<97, 47, 99, 47, 97>>) >= 0
    /\ find(index, <<97, 47, 98>>) >= 0
    /\ flatten_tree(tree_objects, root).paths # <<>>

(***************************************************************************)
(* Properties of the codecs.                                               *)
(***************************************************************************)
\* C11: decode(encode(x)) = x for every blob, tree, commit and index: the
\* decoder yields a value of the same kind with identical fields.
C11_RoundTrip ==
    codec.y # NotDecoded => (codec.y.res = "ok" /\ codec.y.value = codec.x)

(***************************************************************************)
(* Properties of the status command.                                       *)
(***************************************************************************)
Range(seq) == {seq[k] : k \in DOMAIN seq}

IsAscending(strs) == \A k \in 1 .. (Len(strs) - 1) : BytesLess(strs[k], strs[k + 1])

IndexPaths(idx) == {get_path(idx, i) : i \in 0 .. (idx.count - 1)}

\* the flat view of the HEAD tree
HeadFlat == IF root = NoHash THEN EmptyFlatTree ELSE flatten_tree(tree_objects, root)

\* C12: collect_status puts an index path in the staged bucket exactly when
\* the lookup of the path in the HEAD flat tree differs from the index hash
\* (a path absent from HEAD counts as different), puts in staged_deleted
\* exactly the HEAD paths absent from the index, and returns every bucket in
\* ascending byte order.
C12_StatusBuckets ==
    status.collected =>
        /\ Range(status.buckets.staged_new_modified) =
              {p \in IndexPaths(index) :
                  lookup(HeadFlat, p) # At(index.hashes, find(index, p))}
        /\ Len(status.buckets.staged_new_modified) = Cardinality(Range(status.buckets.staged_new_modified))
        /\ Range(status.buckets.staged_deleted) = Range(HeadFlat.paths) \ IndexPaths(index)
        /\ IsAscending(status.buckets.staged_new_modified)
        /\ IsAscending(status.buckets.staged_deleted)
        /\ IsAscending(status.buckets.modified)
        /\ IsAscending(status.buckets.deleted)
        /\ IsAscending(status.buckets.untracked)

\* a status with two staged paths that the index holds in descending order,
\* one of them in HEAD with another hash and one new, and a staged delete
C12_Witness ==
    /\ status.collected
    /\ root # NoHash
    /\ index.count = 2
    /\ Len(status.buckets.staged_new_modified) = 2
    /\ find(index, status.buckets.staged_new_modified[1])
          > find(index, status.buckets.staged_new_modified[2])
    /\ lookup(HeadFlat, status.buckets.staged_new_modified[1]) # NoHash
    /\ lookup(HeadFlat, status.buckets.staged_new_modified[2]) = NoHash
    /\ Len(status.buckets.staged_deleted) = 1
    /\ Len(status.buckets.modified) = 1
    /\ Len(status.buckets.untracked) = 1

(***************************************************************************)
(* Properties of checkout.                                                 *)
(***************************************************************************)
\* a step of a checkout that returned Ok: afterwards every blob path of the
\* target tree is a file with the bytes of its blob, the files the index
\* tracked before and the target lacks are gone, and the saved index holds
\* the blob paths of the target with their hashes and nothing else
C13_Step ==
    co'.result = "ok" =>
        LET target_flat == flatten_tree(tree_objects', co'.tree)
        IN  /\ \A k \in 1 .. Len(target_flat.paths) :
                /\ worktree'[target_flat.paths[k]] # NoFile
                /\ worktree'[target_flat.paths[k]].data = target_flat.hashes[k].id
                /\ find(index', target_flat.paths[k]) # -1
                /\ At(index'.hashes, find(index', target_flat.paths[k])) = target_flat.hashes[k]
            /\ \A p \in IndexPaths(index) \ Range(target_flat.paths) : worktree'[p] = NoFile
            /\ IndexPaths(index') = Range(target_flat.paths)
            /\ index'.count = Len(target_flat.paths)

C14_HeadUnchangedOnFailure == [][co'.result = "err" => HEAD' = HEAD]_vars

(***************************************************************************)
(* Properties of the commit command.                                       *)
(***************************************************************************)
\* C3: a command that fails with an error while writes are pending leaves
\* objects.bin (records, buckets, header count, length) as it was when the
\* command started.
C3_FailedCommandLeavesFile ==
    cmd.result = "failed" => FileView = cmd.at_start

\* a process that opens objects.bin now finds hash h
Readable(h) == exists_in(buckets, disk, disk_len, h)

\* C4: at every step of commit(), and after a crash or an error at any
\* step, the hash that HEAD or the ref HEAD names holds is readable from
\* objects.bin.
C4_HeadCommitReadable ==
    read_head_commit # 0 => Readable(read_head_commit)

\* the step of commit() that updates the ref, and the step in which commit()
\* returns Ok(hash)
C15_Step ==
    /\ (pc = "written" /\ pc' = "ref_written") =>
            IF HEAD.symbolic
            THEN /\ HEAD'.symbolic
                 /\ HEAD'.ref = HEAD.ref
                 /\ refs'[HEAD.ref] = commit_hash
            ELSE /\ ~HEAD'.symbolic
                 /\ HEAD'.hash = commit_hash
                 /\ refs' = refs
    /\ (pc = "ref_written" /\ pc' = "idle" /\ cmd'.result = "ok") =>
            /\ HEAD'.symbolic = HEAD.symbolic
            /\ read_head_commit' = commit_hash'

\* C15: commit keeps the form of HEAD: with a symbolic HEAD the new hash is
\* written to the ref HEAD names and HEAD stays symbolic, with a detached
\* HEAD the hash overwrites HEAD, and in both cases read_head_commit()
\* afterwards returns the hash commit() returned.
C15_CommitKeepsHeadForm == [][C15_Step]_vars

\* commit() returned Ok on a detached HEAD while main stays at an older commit
C15_Witness ==
    /\ pc = "idle"
    /\ cmd.result = "ok"
    /\ cmd.at_start # FileView
    /\ ~HEAD.symbolic
    /\ HEAD.hash = commit_hash
    /\ refs["main"] # 0
    /\ refs["main"] # commit_hash

(***************************************************************************)
(* Properties of the stage command.                                        *)
(***************************************************************************)
\* the entry of path p in idx: hash, mode, mtime and size
EntryOf(idx, p) ==
    LET i == find(idx, p)
    IN  IF i = -1 THEN [hash |-> NoHash, mode |-> 0, mtime |-> 0, size |-> 0]
        ELSE [hash |-> At(idx.hashes, i), mode |-> At(idx.modes, i),
              mtime |-> At(idx.mtimes, i), size |-> At(idx.sizes, i)]

\* the file at p exists and has the mtime and the size of its entry in idx
Clean(idx, wt, p) ==
    /\ wt[p] # NoFile
    /\ find(idx, p) # -1
    /\ EntryOf(idx, p).mtime = wt[p].meta.mtime
    /\ EntryOf(idx, p).size = wt[p].meta.size

\* the files the workers of this run read: those of the batches
BatchPaths(s) == Range(s.batch) \cup UNION {Range(s.batches[k]) : k \in DOMAIN s.batches}

\* nothing is left to stage: every file is clean in the index or over the
\* limit, and every entry of the index has its file
Settled(idx, wt) ==
    \A p \in PathUniverse :
        /\ wt[p] = NoFile => find(idx, p) = -1
        /\ wt[p] # NoFile => Clean(idx, wt, p) \/ wt[p].meta.size > STAGE_MAX_FILE_BYTES

C16_Step ==
    /\ stg'.pc # "idle" => \A p \in BatchPaths(stg') : ~Clean(index', worktree', p)
    /\ (stg.pc = "save" /\ stg'.result = "ok") =>
            \A p \in PathUniverse :
                Clean(index, worktree, p) => EntryOf(index', p) = EntryOf(index, p)
    /\ (stg.pc # "idle" /\ Settled(index, worktree)) =>
            /\ index' = index
            /\ FileView' = FileView

\* C16: stage skips every file whose mtime and size equal those of its index
\* entry: the file is not among those the workers read and hash and its
\* entry is not changed; a run of stage over a working tree with nothing
\* left to stage changes neither the saved index nor objects.bin.
C16_DirtyGate == [][C16_Step]_vars

\* stage returned Ok and left the entry of "b" with the hash of the first
\* content, while the file holds other content with the same mtime and size
C16_Witness ==
    /\ stg.result = "ok"
    /\ worktree[<<98>>].data = 2
    /\ Clean(index, worktree, <<98>>)
    /\ EntryOf(index, <<98>>).hash = BlobHash(1)

\* C17: after stage returns successfully the saved index has no entry whose
\* path is missing from the working tree; the entries are removed from the
\* index in memory before any batch is written.
C17_MissingRemoved ==
    /\ stg.pc # "idle" => \A p \in IndexPaths(stg.mem) : worktree[p] # NoFile
    /\ stg.result = "ok" => \A p \in IndexPaths(index) : worktree[p] # NoFile

\* stage is about to save: the saved index still tracks "b", whose file is
\* gone, and the index in memory no longer does
C17_Witness ==
    /\ stg.pc = "save"
    /\ worktree[<<98>>] = NoFile
    /\ find(index, <<98>>) # -1
    /\ find(stg.mem, <<98>>) = -1
    /\ stg.mem.count = 1

\* C18: whenever stage is interrupted, every blob hash the saved index names
\* is present in objects.bin.
C18_IndexNeverAhead ==
    \A i \in 0 .. (index.count - 1) : Readable(At(index.hashes, i).id)

\* stage was killed after a batch was written: objects.bin holds a blob the
\* saved index does not name
C18_Witness ==
    /\ stg.result = "crashed"
    /\ index.count = 1
    /\ Readable(1)
    /\ Readable(2)

C19_Step ==
    /\ (/\ stg.pc # "idle"
        /\ \/ FileView' # FileView
           \/ stg'.pc # "idle" /\ stg'.mem # stg.mem) =>
            \A k \in 1 .. Len(stg.processed) : stg.processed[k] # -1
    /\ (\E k \in 1 .. Len(stg'.processed) : stg'.processed[k] = -1) =>
            /\ stg'.pc = "workers"
            /\ stg'.infos = <<>>

\* C19: during stage the appends to objects.bin and the changes of the index
\* are made by the coordinator while no worker runs: the write_batch and the
\* index updates of a batch start after every worker of the batch has
\* finished and are over before a worker of the next batch starts.
C19_SingleAppender == [][C19_Step]_vars

\* the two workers of a batch have finished and the batch has been written
C19_Witness ==
    /\ stg.pc = "add"
    /\ Len(stg.batch) = 2
    /\ Len(stg.infos) = 2
    /\ FileView.records # {}

\* the hashes a process that opens objects.bin finds
PresentSet == {h \in Hashes : Readable(h)}

\* the files of the batch that were read
ReadOf(s) == {k \in 1 .. Len(s.batch) : s.processed[k] > 0}

C20_Step ==
    /\ (stg.pc = "workers" /\ stg'.pc = "add") =>
            PresentSet' = PresentSet \cup {stg.processed[k] : k \in ReadOf(stg)}
    /\ (stg.pc = "add" /\ stg'.pc # "idle") =>
            \A p \in PathUniverse :
                EntryOf(stg'.mem, p) =
                    IF \E k \in ReadOf(stg) : stg.batch[k] = p
                    THEN LET k == CHOOSE k \in ReadOf(stg) : stg.batch[k] = p
                         IN  [hash  |-> BlobHash(stg.processed[k]),
                              mode  |-> IF worktree[p].meta.exec THEN MODE_EXEC ELSE MODE_FILE,
                              mtime |-> worktree[p].meta.mtime,
                              size  |-> worktree[p].meta.size]
                    ELSE EntryOf(stg.mem, p)

\* C20: for a batch, the entries of the index (path to hash, mode, mtime,
\* size) and the set of hashes present in objects.bin after the flush of the
\* batch are those of the files of the batch that were read, whatever the
\* order in which the workers finished.
C20_OrderIndependent == [][C20_Step]_vars

\* a batch of two files with different content whose second worker finished
\* first has been flushed
C20_Witness ==
    /\ stg.pc = "sync"
    /\ stg.order = <<2, 1>>
    /\ stg.mem.count = 2
    /\ At(stg.mem.hashes, 0) # At(stg.mem.hashes, 1)

\* the files that survive the filter of stage: they exist, are not over the
\* limit and are not clean in the index
Survivors(idx, wt) ==
    {p \in PathUniverse :
        wt[p] # NoFile /\ wt[p].meta.size <= STAGE_MAX_FILE_BYTES /\ ~Clean(idx, wt, p)}

RECURSIVE SumFileSizes(_, _)
SumFileSizes(batch, wt) ==
    IF batch = <<>> THEN 0 ELSE wt[Head(batch)].meta.size + SumFileSizes(Tail(batch), wt)

\* the step in which stage has split its files into batches
C21_Step ==
    (stg.pc = "idle" /\ stg'.pc # "idle") =>
        LET all  == <<stg'.batch>> \o stg'.batches
            flat == Concat(all)
        IN  /\ Range(flat) = Survivors(index, worktree)
            /\ Len(flat) = Cardinality(Range(flat))
            /\ IsAscending(flat)
            /\ \A b \in 1 .. Len(all) : SumFileSizes(all[b], worktree) <= STAGE_BATCH_MAX_BYTES
            /\ \A p \in Range(flat) : worktree[p].meta.size <= STAGE_MAX_FILE_BYTES

\* C21: stage splits the files that survive the filter into batches: every
\* such file is in exactly one batch, the order of the walk is kept, the
\* file sizes of a batch sum to at most the batch limit, and no file over
\* the file limit is in a batch.
C21_BatchPartition == [][C21_Step]_vars

\* stage has split two files into two batches, the second one a file of the
\* size of the batch limit
C21_Witness ==
    /\ stg.pc = "workers"
    /\ stg.order = <<>>
    /\ stg.batch = << <<97, 47, 98>> >>
    /\ stg.batches = << << <<98>> >> >>
    /\ worktree[<<98>>].meta.size = STAGE_BATCH_MAX_BYTES

(***************************************************************************)
(* Properties of stash (SpecStash).                                        *)
(***************************************************************************)
\* the path is tracked, in HEAD and in the index with the same blob, and its
\* file in wt exists with another mtime or size than the index entry records
ModifiedNotStaged(idx, wt, path) ==
    /\ lookup(HeadFlat, path) # NoHash
    /\ find(idx, path) # -1
    /\ At(idx.hashes, find(idx, path)) = lookup(HeadFlat, path)
    /\ wt[path] # NoFile
    /\ is_dirty(idx, find(idx, path), wt[path].meta)

C22_Step ==
    /\ st'.last = "saved" =>
          \A p \in CheckoutPaths :
              ModifiedNotStaged(Index_load(index), worktree, p) =>
                  BlobHash(worktree'[p].data) = lookup(HeadFlat, p)
    /\ st'.last = "saved_popped" =>
          /\ st'.refs = st.before.refs
          /\ \A p \in CheckoutPaths :
                ModifiedNotStaged(st.before.index, st.before.worktree, p) =>
                    worktree'[p].data = st.before.worktree[p].data

StashList(slots) ==
    [k \in 1 .. Cardinality(read_stash_indexes(slots)) |-> slots[k - 1]]

\* q without its k-th element
Without(q, k) == SubSeq(q, 1, k - 1) \o SubSeq(q, k + 1, Len(q))

C23_Step ==
    LET old == StashList(st.refs)
        new == StashList(st'.refs)
    IN  /\ read_stash_indexes(st'.refs) = 0 .. Len(new) - 1
        /\ st'.last \in {"none", "noop"} => new = old
        /\ st'.last = "err" => new = old \/ (new # <<>> /\ Tail(new) = old)
        /\ st'.last = "saved" =>
              /\ new # <<>> /\ Tail(new) = old
              /\ new[1].tree = staged_entries(Index_load(index))
        /\ st'.last = "applied" => new = old
        /\ st'.last \in {"popped", "saved_popped"} =>
              /\ old # <<>> /\ new = Tail(old)
              /\ \A k \in DOMAIN old[1].dirty :
                    BlobHash(worktree'[old[1].dirty[k].name].data) = old[1].dirty[k].hash
        /\ st'.last = "dropped" =>
              \E k \in DOMAIN old : new = Without(old, k)

C24_Step ==
    (st'.last = "saved" /\ root # NoHash) =>
        /\ \A p \in PathUniverse :
              IF lookup(HeadFlat, p) = NoHash
              THEN /\ find(index', p) = -1
                   /\ find(Index_load(index), p) # -1 => worktree'[p] = NoFile
              ELSE /\ find(index', p) # -1
                   /\ At(index'.hashes, find(index', p)) = lookup(HeadFlat, p)
                   /\ worktree'[p] # NoFile
                   /\ BlobHash(worktree'[p].data) = lookup(HeadFlat, p)

\* C24: after a stash save that succeeds in a repository with a HEAD commit,
\* the index holds exactly the paths and hashes of HEAD, each of those files
\* has its HEAD content, and no file exists that the index tracked and HEAD
\* does not hold.
C24_BackAtHead == [][C24_Step]_vars

\* the index holds the paths and hashes of the tree of HEAD, and every file
\* it tracks exists with the mtime and size it records
NoLocalChanges ==
    LET idx == Index_load(index)
    IN  /\ \A p \in PathUniverse :
              IF find(idx, p) = -1
              THEN lookup(HeadFlat, p) = NoHash
              ELSE /\ At(idx.hashes, find(idx, p)) = lookup(HeadFlat, p)
                   /\ worktree[p] # NoFile
                   /\ ~is_dirty(idx, find(idx, p), worktree[p].meta)

C25_Step ==
    (NoLocalChanges /\ st'.last \in {"saved", "noop"}) =>
        /\ st'.refs = st.refs
        /\ index' = index
        /\ worktree' = worktree

\* C25: a stash save in a repository with no local changes creates no ref
\* under refs/stash and leaves the index and the working tree as they were.
C25_NoChangesNoStash == [][C25_Step]_vars

(***************************************************************************)
(* Properties of branch (SpecBranch).                                      *)
(***************************************************************************)
\* the branch name is not HEAD's, has a ref, and its tip is reachable from
\* the tip of another branch
Deletable(b, name) ==
    /\ b.heads[name] # 0
    /\ current_branch(b) # name
    /\ \E o \in BranchNames :
          /\ o # name
          /\ b.heads[o] # 0
          /\ b.heads[name] \in reachable_commits(b.parents, b.heads[o])

C26_Step ==
    br'.last.op = "delete" =>
        IF Deletable(br, br'.last.name)
        THEN /\ br'.last.err = ""
             /\ br'.heads = [br.heads EXCEPT ![br'.last.name] = 0]
        ELSE /\ br'.last.err # ""
             /\ br'.heads = br.heads

\* C26: branch delete removes refs/heads/<name> when the branch exists, is
\* not the branch HEAD names and its tip is reachable from another branch;
\* otherwise it returns an error and every ref stays.
C26_DeleteIff == [][C26_Step]_vars

C27_Step ==
    (br'.last.op = "create" /\ br.heads[br'.last.name] # 0) =>
        /\ br'.last.err = "already exists"
        /\ br'.heads[br'.last.name] = br.heads[br'.last.name]

\* C27: branch create with the name of a branch that has a ref returns the
\* error 'already exists' and leaves the ref at its commit.
C27_CreateExisting == [][C27_Step]_vars

\* char::is_whitespace, for the bytes below 128
WhitespaceBytes == {9, 10, 11, 12, 13, 32}

\* the names the specification rejects
InvalidName(name) ==
    \/ name = <<>>
    \/ contains(name, 47)
    \/ \E w \in WhitespaceBytes : contains(name, w)
    \/ (name # <<>> /\ name[1] = 45)
    \/ name = <<72, 69, 65, 68>>

C28_Step ==
    (br'.last.op \in {"create", "rename"} /\ InvalidName(br'.last.name)) =>
        /\ br'.last.err # ""
        /\ br'.heads = br.heads

\* C28: branch create and branch rename to a name that is empty, contains
\* '/', contains a whitespace character, starts with '-' or is HEAD return
\* an error and leave every ref as it was.
C28_InvalidNameRejected == [][C28_Step]_vars

(***************************************************************************)
(* Properties of a second init (SpecInit).                                 *)
(***************************************************************************)
C29_Step ==
    cmd'.result = "init" =>
        /\ \A h \in Hashes : Readable(h) => Readable(h)'
        /\ refs' = refs
        /\ read_head_commit # 0 => read_head_commit' = read_head_commit

\* C29: init on a repository that exists keeps every readable object
\* readable and every ref at its value, and when read_head_commit returned a
\* commit before the init it returns the same commit after it.
C29_InitKeepsHead == [][C29_Step]_vars

(***************************************************************************)
(* Properties of discard (SpecDiscard).                                    *)
(***************************************************************************)
\* the file at path holds the content of the blob h
HasContent(wt, path, h) == wt[path] # NoFile /\ BlobHash(wt[path].data) = h

C30_Step ==
    LET idx == Index_load(index)
    IN  /\ (DiscardAll /\ dc'.result = "ok") =>
              \A p \in PathUniverse :
                  find(idx, p) # -1 =>
                      IF root = NoHash
                      THEN HasContent(worktree', p, At(idx.hashes, find(idx, p)))
                      ELSE lookup(HeadFlat, p) # NoHash =>
                               HasContent(worktree', p, lookup(HeadFlat, p))
        /\ \A p \in CheckoutPaths :
              (DiscardPath(p) /\ dc'.result = "ok" /\ worktree[p] # NoFile) =>
                  IF root = NoHash
                  THEN find(idx, p) # -1 =>
                           HasContent(worktree', p, At(idx.hashes, find(idx, p)))
                  ELSE lookup(HeadFlat, p) # NoHash =>
                           HasContent(worktree', p, lookup(HeadFlat, p))

\* C30: with a HEAD commit, discard with or without a path leaves every
\* file it handles that is in the tree of HEAD with the content HEAD
\* records; without a HEAD commit it leaves every tracked file it handles
\* with the content the index records.
C30_DiscardFromHead == [][C30_Step]_vars

(***************************************************************************)
(* Properties of log (SpecLog).                                            *)
(***************************************************************************)
\* the commits from h along the first parent
RECURSIVE FirstParentChain(_, _)
FirstParentChain(objs, h) ==
    IF h = 0 \/ objs[h].kind # "commit" THEN <<>>
    ELSE IF objs[h].parents = <<>> THEN <<h>>
    ELSE <<h>> \o FirstParentChain(objs, objs[h].parents[1])

\* C31: when log returns, it has printed the commits of the first-parent
\* chain from HEAD, newest first and each once, down to the commit without
\* a parent; with one commit that is one entry.
C31_LogPrintsChain ==
    lg.pc = "done" =>
        /\ lg.out = FirstParentChain(lg.objs, lg.HEAD)
        /\ \A i, j \in DOMAIN lg.out : i # j => lg.out[i] # lg.out[j]
        /\ lg.HEAD # 0 =>
              /\ lg.out # <<>>
              /\ lg.out[1] = lg.HEAD
              /\ lg.objs[lg.out[Len(lg.out)]].parents = <<>>

\* log has returned after printing a chain of three commits
C31_Witness == lg.pc = "done" /\ Len(lg.out) = 3

\* C38: a log that has started returns, whatever object HEAD and the
\* first parents name.
C38_LogTerminates == (lg.pc = "running") ~> (lg.pc # "running")

(***************************************************************************)
(* Properties of the object cache.                                          *)
(***************************************************************************)
RECURSIVE SumLen(_)
SumLen(map) ==
    IF DOMAIN map = {} THEN 0
    ELSE LET k == CHOOSE x \in DOMAIN map : TRUE
         IN  map[k].len + SumLen(map_remove(map, k))

C33_Step ==
    (oc'.ret.op = "insert" /\ oc' # oc) =>
        /\ SumLen(oc'.cache.map) = oc'.cache.total_bytes
        /\ oc'.cache.total_bytes <= CACHE_MAX_BYTES
        /\ oc'.ret.hash \in DOMAIN oc.cache.map => oc'.cache = oc.cache

\* C33: after every ObjectCache::insert the lengths of the records the cache
\* holds add up to its byte counter and to at most the capacity, and the
\* insert of a hash the cache already holds leaves the map, the order and the
\* counter as they were.
C33_InsertBounded == [][C33_Step]_vars

C33_Witness ==
    /\ oc.ret.op = "insert"
    /\ oc.ret.hash = 3
    /\ oc.evicted # <<>>
    /\ oc.cache.order = <<3>>
    /\ oc.cache.total_bytes = CACHE_MAX_BYTES

\* the queue after the hash is pushed, when the cache does not hold it yet
Pushed(c, hash) ==
    IF hash \in DOMAIN c.map THEN c.order ELSE Append(c.order, hash)

\* s is what is left of t after some of its first elements are taken away
IsSuffix(s, t) ==
    /\ Len(s) <= Len(t)
    /\ s = SubSeq(t, Len(t) - Len(s) + 1, Len(t))

SeqRange(s) == {s[i] : i \in 1..Len(s)}

C34_Step ==
    /\ oc'.ret.op = "insert" =>
          /\ IsSuffix(oc'.cache.order, Pushed(oc.cache, oc'.ret.hash))
          /\ oc'.evicted \o oc'.cache.order = Pushed(oc.cache, oc'.ret.hash)
          /\ DOMAIN oc'.cache.map = SeqRange(oc'.cache.order)
    /\ oc'.ret.op = "get" => oc'.cache = oc.cache

\* C34: the entries an insert takes out of the cache are the ones that were
\* inserted first among those it holds (what stays is the end of the queue,
\* and the map holds exactly the hashes of the queue), and get leaves the
\* queue and the map as they were.
C34_EvictOldestFirst == [][C34_Step]_vars

C34_Witness ==
    /\ oc.ret.op = "insert"
    /\ oc.ret.hash = 3
    /\ oc.evicted = <<1, 2>>
    /\ oc.cache.order = <<3>>

\* C39: read_blob_bytes_without_touching_stores gives the payload of every
\* blob that is in the object database, whatever its length, and does not
\* panic.
C39_ReadBlobBytes ==
    (/\ oc.ret.op = "read_blob"
     /\ oc.ret.hash \in oc.db
     /\ CacheRecords[oc.ret.hash].tag = "blob")
        => oc.ret.val = [kind |-> "ok", bytes |-> CacheRecords[oc.ret.hash].data]

(***************************************************************************)
(* Properties of the opening of objects.bin.                                *)
(***************************************************************************)
\* C32: objects.bin whose header has another magic than MAGIC or another
\* version than VERSION is not opened: the open fails and gives no Storage.
C32_CorruptHeaderFatal ==
    (/\ hd.file # NoHeaderFile
     /\ hd.ret # NoOpen
     /\ \/ Slice(hd.file.head, 0, 4) # MAGIC
        \/ u32_from_le_bytes(Slice(hd.file.head, 4, 8)) # VERSION)
        => ~hd.ret.ok

(***************************************************************************)
(* The header count after flush and write_batch.                            *)
(***************************************************************************)
NonEmptyBuckets == {b \in DOMAIN buckets : buckets[b] # 0}

RecordsInData == {i \in 1 .. Len(disk) : disk[i].present}

\* C37: when flush or write_batch has returned, with Ok or with an error,
\* the count of the header is the number of buckets that are not empty and
\* the number of records in the data region.
C37_CountMatchesTable ==
    last.op \in {"flush", "write_batch"} =>
        /\ count = Cardinality(NonEmptyBuckets)
        /\ count = Cardinality(RecordsInData)

(***************************************************************************)
(* Properties of checkout_path.                                             *)
(***************************************************************************)
UnderDir(p, dir) == starts_with(p, dir \o <<SLASH>>)

C40_Step ==
    (cp'.ret.op = "checkout_path" /\ cp'.ret.kind = "tree") =>
        LET dir  == cp'.ret.path
            flat == flatten_tree(cp.objects, cp.tree)
        IN  \A p \in CpPaths :
                /\ ~UnderDir(p, dir) =>
                      /\ cp'.wt[p] = cp.wt[p]
                      /\ find(cp.index, p) # -1 => find(cp'.index, p) # -1
                /\ (UnderDir(p, dir) /\ cp'.wt[p] # cp.wt[p] /\ cp'.wt[p] # NoFile) =>
                      /\ lookup(flat, p) # NoHash
                      /\ cp'.wt[p] = written_file(lookup(flat, p))

\* C40: checkout_path of a directory changes no file outside the directory
\* and drops no index entry of a path outside it, and every file it writes
\* is a file of the target commit below the directory, written at the path
\* and with the content it has in the commit.
C40_CheckoutPathDirectory == [][C40_Step]_vars

(***************************************************************************)
(* Properties of the trees written from a staged index.                     *)
(***************************************************************************)
DistinctNames(t) ==
    \A i, j \in 1 .. Len(t.entries) :
        i # j => t.entries[i].name # t.entries[j].name

\* C36: in every tree that write_tree writes from an index that stage
\* filled, no two entries have the same name, also when the index holds a
\* file path and a path below it.
C36_UniqueEntryNames ==
    \A t \in tw.objects : t.tag = "tree" => DistinctNames(t)

(***************************************************************************)
(* Properties of two processes on one objects.bin.                          *)
(***************************************************************************)
\* the record is in the file, whole, where it was written
Intact(r) == \E i \in 1 .. Len(sh.disk) : sh.disk[i] = r

\* C35: whatever two processes that write to the same objects.bin do to the
\* count and the bucket table, the bytes of every record that the last
\* flush of a process wrote are in the file as they were written.
C35_RecordBytesIntact ==
    \A p \in Procs :
        \A k \in 1 .. Len(sh.procs[p].written) : Intact(sh.procs[p].written[k])

====
